---- MODULE Spec2Model ----
(***************************************************************************)
(* Skill Dock: the Storage Engine (StorageService) and the Marketplace     *)
(* Client (MarketplaceService) as state machines.                          *)
(*                                                                         *)
(* The library directory is a map from directory name to the files of the  *)
(* directory; the stats ledger (.stats.json) is a map from skill id to its *)
(* entry; the marketplace cache is a map from source id to a cache entry.  *)
(* Strings the code only compares are TLA+ strings; strings the code cuts  *)
(* up (bodies that are trimmed, repository paths that are split) are       *)
(* sequences of characters or of path segments.                            *)
(***************************************************************************)
EXTENDS Integers, Sequences, FiniteSets, TLC

\* ------------------------------------------------------------------------
\* Bounds of the model
\* ------------------------------------------------------------------------

\* largest collision suffix: library ids are widget, widget-1 .. widget-MaxSuffix
MaxSuffix == 2
\* largest install count a ledger entry reaches
MaxInstalls == 2
\* the clock runs from 0 to MaxTicks * TickMs
MaxTicks == 3

\* ------------------------------------------------------------------------
\* Values
\* ------------------------------------------------------------------------

\* JavaScript undefined / null
Undefined == "undefined"
Null == [null |-> TRUE]

\* JavaScript truthiness of a value of type string | undefined
Truthy(v) == v # Undefined /\ v # ""

\* a ?? b
Nullish(a, b) == IF a = Undefined THEN b ELSE a

SkillMd == "SKILL.md"

Whitespace == {" ", "\n"}

BaseName == "widget"

\* `${dirName}-${counter}`
Suffixed(dirName, counter) == dirName \o "-" \o ToString(counter)

LibIds == {BaseName} \cup {Suffixed(BaseName, k) : k \in 1..MaxSuffix}

\* ids of the skills the marketplace offers
RemoteIds == {BaseName, Suffixed(BaseName, 1)}

\* ids recordInstall is called with directly
LedgerIds == {BaseName}

Versions == {"", "1.0"}

\* String.prototype.trim on a sequence of characters
RECURSIVE trimStart(_)
trimStart(s) ==
  IF s # <<>> /\ Head(s) \in Whitespace THEN trimStart(Tail(s)) ELSE s

RECURSIVE trimEnd(_)
trimEnd(s) ==
  IF s # <<>> /\ s[Len(s)] \in Whitespace
  THEN trimEnd(SubSeq(s, 1, Len(s) - 1))
  ELSE s

trim(s) == trimEnd(trimStart(s))

\* ------------------------------------------------------------------------
\* Frontmatter codec.  A document `---\n<yaml>\n---\n\n<body>\n` is the
\* record of its header fields and of <body>.
\* ------------------------------------------------------------------------

serializeSkill(metadata, body) ==
  [name |-> metadata.name,
   description |-> metadata.description,
   version |-> IF Truthy(metadata.version) THEN metadata.version ELSE Undefined,
   body |-> trim(body)]

parseFrontmatter(content) ==
  [metadata |->
     [name |-> IF Truthy(content.name) THEN content.name ELSE "untitled",
      description |-> IF Truthy(content.description) THEN content.description ELSE "",
      version |-> content.version],
   body |-> IF content.body = <<>> THEN <<>> ELSE content.body \o <<"\n">>]

\* ------------------------------------------------------------------------
\* Inputs
\* ------------------------------------------------------------------------

\* (metadata, body) pairs the marketplace offers to installSkill
RemoteInputs ==
  { [metadata |-> [name |-> "A", description |-> "", version |-> Undefined],
     body |-> <<" ", "b">>],
    [metadata |-> [name |-> "B", description |-> "d", version |-> "1.0"],
     body |-> <<"c", "\n">>],
    [metadata |-> [name |-> "A", description |-> "", version |-> ""],
     body |-> <<"b">>] }

\* (metadata, body) pairs handed to createSkill / updateSkill
SkillInputs ==
  { i \in RemoteInputs : i.metadata.version # "" }

\* directories outside the library, by path; two of them have the same
\* base name, one has no SKILL.md
ExternalPaths ==
  { <<"tmp", "a", BaseName>>, <<"tmp", "b", BaseName>>, <<"tmp", "c", BaseName>> }

\* a directory whose name starts with a dot, and one whose SKILL.md has a
\* mapping with the key toString as its name
HiddenName == ".hidden"

OddName == "odd"

HiddenPath == <<"tmp", "d", HiddenName>>

OddPath == <<"tmp", "e", OddName>>

\* the value YAML.parse gives `name:\n  toString: x`
MappingToString == "{ toString: 'x' }"

\* the ids importFromPath may give a directory
ImportIds == LibIds \cup {HiddenName, OddName}

ExternalFiles(p) ==
  IF p = <<"tmp", "a", BaseName>>
  THEN [f \in {SkillMd} |->
          [name |-> "ExtA", description |-> "", version |-> Undefined, body |-> <<"x">>]]
  ELSE IF p = <<"tmp", "b", BaseName>>
  THEN [f \in {SkillMd} |->
          [name |-> "ExtB", description |-> "", version |-> Undefined, body |-> <<"y">>]]
  ELSE IF p = HiddenPath
  THEN [f \in {SkillMd} |->
          [name |-> "ExtA", description |-> "", version |-> Undefined, body |-> <<"h">>]]
  ELSE IF p = OddPath
  THEN [f \in {SkillMd} |->
          [name |-> MappingToString, description |-> "", version |-> Undefined,
           body |-> <<"z">>]]
  ELSE [f \in {"README.md"} |-> [text |-> "readme of c"]]

\* path.basename
basename(p) == p[Len(p)]

\* ------------------------------------------------------------------------
\* State
\* ------------------------------------------------------------------------

VARIABLES
  library,   \* directory name -> (file name -> content), the library root
  stats,     \* skill id -> ledger entry, the content of .stats.json
  recorded,  \* skill id -> number of recordInstall calls completed (history)
  cache,     \* source id -> cache entry, MarketplaceService._cache
  now,       \* Date.now()
  lastOp,    \* the operation that made the last step, and its outcome
  fetches,   \* caller -> the fetchSource call it has in progress
  config,    \* the value of the setting skilldock.libraryPath
  libraryPath, \* StorageService._libraryPath; library and stats are the
             \* directory at this path
  shelf,     \* every other library root -> its library and stats
  repo,      \* <<skillsDir, skill id>> -> (entry name -> content), the
             \* skill directories of the workspace folder
  marketplaceSources, \* the setting skilldock.marketplaceSources
  creates,   \* caller -> the createSkill call it has in progress
  installs,  \* caller -> the recordInstall call it has in progress
  importing, \* caller -> the importFromPath call it has in progress
  overtaken, \* the callers whose fetchSource call was in progress when the
             \* cache entry of its source was evicted (history)
  http,      \* the _httpGetJson or _httpGetText call in progress, with the
             \* requests it has sent
  panels     \* the panel objects constructed so far, SkillEditorPanel's
             \* currentPanels and ManagerPanel's currentPanel

\* the variables that only the operations naming them change
others ==
  <<fetches, config, libraryPath, shelf, repo, marketplaceSources, creates,
    installs, importing, overtaken, http, panels>>

vars == <<library, stats, recorded, cache, now, lastOp, others>>

\* ------------------------------------------------------------------------
\* Storage Engine
\* ------------------------------------------------------------------------

\* pathExists(path.join(libraryPath, id))
dirExists(lib, id) == id \in DOMAIN lib

\* pathExists(path.join(libraryPath, id, 'SKILL.md'))
skillFileExists(lib, id) == id \in DOMAIN lib /\ SkillMd \in DOMAIN lib[id]

\* fs.writeFile(path.join(libraryPath, id, name), content), the directory
\* being created when absent (ensureDirectory)
writeFile(lib, id, name, content) ==
  LET old == IF id \in DOMAIN lib THEN lib[id] ELSE << >>
      dir == [f \in DOMAIN old \cup {name} |-> IF f = name THEN content ELSE old[f]]
  IN [d \in DOMAIN lib \cup {id} |-> IF d = id THEN dir ELSE lib[d]]

\* fs.rm(path.join(libraryPath, id), {recursive, force})
removeDir(lib, id) == [d \in DOMAIN lib \ {id} |-> lib[d]]

\* copyDirectory(src, path.join(libraryPath, destId)): every file of src is
\* written over the file of the same name; other files of dest stay
copyDirectory(lib, srcFiles, destId) ==
  LET old == IF destId \in DOMAIN lib THEN lib[destId] ELSE << >>
      dir == [f \in DOMAIN old \cup DOMAIN srcFiles |->
                IF f \in DOMAIN srcFiles THEN srcFiles[f] ELSE old[f]]
  IN [d \in DOMAIN lib \cup {destId} |-> IF d = destId THEN dir ELSE lib[d]]

\* parseFrontmatter throws: String(v) of a mapping whose toString is not a
\* function
parseThrows(content) == content.name = MappingToString

\* readSkill(id) rejects
readThrows(lib, id) ==
  skillFileExists(lib, id) /\ parseThrows(lib[id][SkillMd])

readSkill(lib, id) ==
  IF ~skillFileExists(lib, id)
  THEN Null
  ELSE LET parsed == parseFrontmatter(lib[id][SkillMd])
       IN [id |-> id,
           metadata |-> parsed.metadata,
           body |-> parsed.body,
           additionalFiles |-> DOMAIN lib[id] \ {SkillMd}]

\* the ledger after a recordInstall that starts every entry afresh
statsAfterInstall_fresh(st, id, version, t) ==
  [d \in DOMAIN st \cup {id} |->
     IF d = id
     THEN [installCount |-> 1, lastInstalledAt |-> t,
           installedVersion |-> version]
     ELSE st[d]]

\* the ledger after recordInstall(id, version) at time t
statsAfterInstall(st, id, version, t) ==
  LET hasExisting == id \in DOMAIN st
      entry ==
        [installCount |->
           (IF hasExisting THEN st[id].installCount ELSE 0) + 1,
         lastInstalledAt |-> t,
         installedVersion |->
           Nullish(version,
                   IF hasExisting THEN st[id].installedVersion ELSE Undefined)]
  IN [d \in DOMAIN st \cup {id} |-> IF d = id THEN entry ELSE st[d]]

\* getInstalledVersions: the entries that have a truthy installedVersion
getInstalledVersions(st) ==
  [id \in {d \in DOMAIN st : Truthy(st[d].installedVersion)} |->
     st[id].installedVersion]

countOf(st, id) == IF id \in DOMAIN st THEN st[id].installCount ELSE 0

bump(rec, id) == [rec EXCEPT ![id] = @ + 1]

\* createSkill without the existence check
createSkillOn_unchecked(lib, id, metadata, body) ==
  [outcome |-> "ok",
   lib |-> writeFile(lib, id, SkillMd, serializeSkill(metadata, body))]

\* createSkill up to its change notification: the outcome and the library
createSkillOn(lib, id, metadata, body) ==
  IF dirExists(lib, id)
  THEN [outcome |-> "AlreadyExists", lib |-> lib]
  ELSE [outcome |-> "ok",
        lib |-> writeFile(lib, id, SkillMd, serializeSkill(metadata, body))]

\* updateSkill that reports success without writing the document
updateSkillOn_stale(lib, id, metadata, body) ==
  IF ~skillFileExists(lib, id)
  THEN [outcome |-> "NotFound", lib |-> lib]
  ELSE [outcome |-> "ok", lib |-> lib]

\* updateSkill up to its change notification: the outcome and the library
updateSkillOn(lib, id, metadata, body) ==
  IF ~skillFileExists(lib, id)
  THEN [outcome |-> "NotFound", lib |-> lib]
  ELSE [outcome |-> "ok",
        lib |-> writeFile(lib, id, SkillMd, serializeSkill(metadata, body))]

createSkill(id, metadata, body) ==
  LET r == createSkillOn(library, id, metadata, body)
  IN /\ library' = r.lib
     /\ lastOp' = [op |-> "createSkill", id |-> id,
                   outcome |-> r.outcome, fired |-> r.outcome = "ok"]
     /\ UNCHANGED <<stats, recorded, cache, now, others>>

\* createSkill when fs.writeFile rejects: the directory has been made
createSkillWriteFails(id) ==
  IF dirExists(library, id)
  THEN /\ lastOp' = [op |-> "createSkill", id |-> id,
                     outcome |-> "AlreadyExists", fired |-> FALSE]
       /\ UNCHANGED <<library, stats, recorded, cache, now, others>>
  ELSE /\ library' = [d \in DOMAIN library \cup {id} |->
                        IF d = id THEN << >> ELSE library[d]]
       /\ lastOp' = [op |-> "createSkill", id |-> id,
                     outcome |-> "WriteFailed", fired |-> FALSE]
       /\ UNCHANGED <<stats, recorded, cache, now, others>>

updateSkill(id, metadata, body) ==
  LET r == updateSkillOn(library, id, metadata, body)
  IN /\ library' = r.lib
     /\ lastOp' = [op |-> "updateSkill", id |-> id,
                   outcome |-> r.outcome, fired |-> r.outcome = "ok"]
     /\ UNCHANGED <<stats, recorded, cache, now, others>>

\* a deleteSkill that also prunes the ledger entry of the skill
deleteSkill_pruning(id) ==
  IF ~dirExists(library, id)
  THEN /\ lastOp' = [op |-> "deleteSkill", id |-> id,
                     outcome |-> "NotFound", fired |-> FALSE]
       /\ UNCHANGED <<library, stats, recorded, cache, now, others>>
  ELSE /\ library' = removeDir(library, id)
       /\ stats' = [d \in DOMAIN stats \ {id} |-> stats[d]]
       /\ lastOp' = [op |-> "deleteSkill", id |-> id,
                     outcome |-> "ok", fired |-> TRUE]
       /\ UNCHANGED <<recorded, cache, now, others>>

deleteSkill(id) ==
  IF ~dirExists(library, id)
  THEN /\ lastOp' = [op |-> "deleteSkill", id |-> id,
                     outcome |-> "NotFound", fired |-> FALSE]
       /\ UNCHANGED <<library, stats, recorded, cache, now, others>>
  ELSE /\ library' = removeDir(library, id)
       /\ lastOp' = [op |-> "deleteSkill", id |-> id,
                     outcome |-> "ok", fired |-> TRUE]
       /\ UNCHANGED <<stats, recorded, cache, now, others>>

duplicateSkill(sourceId, newId) ==
  IF ~ skillFileExists(library, sourceId)
  THEN /\ lastOp' = [op |-> "duplicateSkill", id |-> newId, from |-> sourceId,
                     outcome |-> "NotFound", fired |-> FALSE]
       /\ UNCHANGED <<library, stats, recorded, cache, now, others>>
  ELSE IF readThrows(library, sourceId)
  THEN /\ lastOp' = [op |-> "duplicateSkill", id |-> newId, from |-> sourceId,
                     outcome |-> "throws", fired |-> FALSE]
       /\ UNCHANGED <<library, stats, recorded, cache, now, others>>
  ELSE /\ library' = copyDirectory(library, library[sourceId], newId)
       /\ lastOp' = [op |-> "duplicateSkill", id |-> newId, from |-> sourceId,
                     outcome |-> "ok", fired |-> TRUE]
       /\ UNCHANGED <<stats, recorded, cache, now, others>>

\* the collision probe of importFromPath: the loop
\*   while (exists(targetId)) { targetId = `${dirName}-${counter}`; counter++ }
RECURSIVE probeTarget(_, _, _, _)
probeTarget(lib, dirName, targetId, counter) ==
  IF dirExists(lib, targetId)
  THEN probeTarget(lib, dirName, Suffixed(dirName, counter), counter + 1)
  ELSE targetId

\* the probe with its counter started at 2
importTarget_from2(lib, skillDir) ==
  probeTarget(lib, basename(skillDir), basename(skillDir), 2)

importTarget(lib, skillDir) ==
  probeTarget(lib, basename(skillDir), basename(skillDir), 1)

importFromPath(skillDir) ==
  IF SkillMd \notin DOMAIN ExternalFiles(skillDir)
  THEN /\ lastOp' = [op |-> "importFromPath", id |-> Undefined, from |-> skillDir,
                     outcome |-> "NoSkillMd", fired |-> FALSE]
       /\ UNCHANGED <<library, stats, recorded, cache, now, others>>
  ELSE LET targetId == importTarget(library, skillDir)
       IN /\ targetId \in ImportIds
          /\ library' = copyDirectory(library, ExternalFiles(skillDir), targetId)
          /\ lastOp' = [op |-> "importFromPath", id |-> targetId, from |-> skillDir,
                        outcome |-> IF parseThrows(ExternalFiles(skillDir)[SkillMd])
                                    THEN "throws" ELSE "ok",
                        fired |-> TRUE]
          /\ UNCHANGED <<stats, recorded, cache, now, others>>

recordInstall(id, version) ==
  /\ countOf(stats, id) < MaxInstalls
  /\ stats' = statsAfterInstall(stats, id, version, now)
  /\ recorded' = bump(recorded, id)
  /\ lastOp' = [op |-> "recordInstall", id |-> id, version |-> version,
                outcome |-> "ok", fired |-> FALSE]
  /\ UNCHANGED <<library, cache, now, others>>

\* ------------------------------------------------------------------------
\* Storage Engine: the library root and listSkills
\* ------------------------------------------------------------------------

\* os.homedir(), by segments
Home == <<"home", "user">>

\* values of the setting skilldock.libraryPath, by characters and segments:
\* unset, blank, and a path under the home directory
PathSettings == {<< >>, <<" ">>, <<"~", "lib">>}

\* StorageService.resolveLibraryPath for the value customPath of the setting
resolveLibraryPath(customPath) ==
  IF customPath # << >> /\ trim(customPath) # << >>
  THEN IF Head(customPath) = "~"
       THEN Home \o Tail(customPath)
       ELSE customPath
  ELSE Home \o <<".skilldock", "skills">>

\* the library roots the settings resolve to
Roots == {resolveLibraryPath(customPath) : customPath \in PathSettings}

\* a root nothing has been written under
EmptyRoot == [library |-> << >>, stats |-> << >>]

\* the order localeCompare puts the names of the skills in
NameOrder == <<"A", "B", "ExtA", "ExtB", "untitled">>

\* a.localeCompare(b)
localeCompare(a, b) ==
  (CHOOSE i \in 1..Len(NameOrder) : NameOrder[i] = a)
    - (CHOOSE i \in 1..Len(NameOrder) : NameOrder[i] = b)

\* fs.readdir of the library root: the directory names, in the order of
\* their suffixes
readdir(lib) ==
  SelectSeq(<<HiddenName, OddName>>
              \o [k \in 1..(MaxSuffix + 1) |->
                    IF k = 1 THEN BaseName ELSE Suffixed(BaseName, k - 1)],
            LAMBDA d : d \in DOMAIN lib)

\* entry.name.startsWith('.')
isHidden(name) == name = HiddenName

\* the skills of the entries that are not hidden, have a SKILL.md and are
\* read without an error, in the order of readdir
RECURSIVE readEntries(_, _)
readEntries(lib, entries) ==
  IF entries = << >>
  THEN << >>
  ELSE (IF /\ ~ isHidden(Head(entries))
           /\ skillFileExists(lib, Head(entries))
           /\ ~ readThrows(lib, Head(entries))
        THEN <<readSkill(lib, Head(entries))>>
        ELSE << >>) \o readEntries(lib, Tail(entries))

\* the merge of the install stats into a skill: one without an entry has
\* no installCount
mergeStats(st, skill) ==
  IF skill.id \in DOMAIN st
  THEN [id |-> skill.id, name |-> skill.metadata.name,
        installCount |-> st[skill.id].installCount]
  ELSE [id |-> skill.id, name |-> skill.metadata.name]

\* Array.prototype.sort by name: a stable insertion of each skill
RECURSIVE sortByName(_)
sortByName(skills) ==
  IF skills = << >>
  THEN << >>
  ELSE LET last == skills[Len(skills)]
           front == sortByName(SubSeq(skills, 1, Len(skills) - 1))
           before == SelectSeq(front,
                       LAMBDA x : localeCompare(x.name, last.name) <= 0)
           after == SelectSeq(front,
                      LAMBDA x : localeCompare(x.name, last.name) > 0)
       IN before \o <<last>> \o after

\* what listSkills returns for the library lib and the ledger st
listing(lib, st) ==
  LET skills == readEntries(lib, readdir(lib))
  IN sortByName([i \in 1..Len(skills) |-> mergeStats(st, skills[i])])

\* the user changes the setting skilldock.libraryPath
setLibraryPath(customPath) ==
  /\ customPath # config
  /\ config' = customPath
  /\ lastOp' = [op |-> "setLibraryPath", root |-> resolveLibraryPath(customPath)]
  /\ UNCHANGED <<library, stats, recorded, cache, now, fetches,
                 libraryPath, shelf, repo,
                 marketplaceSources, creates, installs, importing, overtaken, http, panels>>

\* this._libraryPath = this.resolveLibraryPath(): the root, and the library
\* and ledger found under it
afterResolve ==
  LET root == resolveLibraryPath(config)
      moved == root # libraryPath
  IN [libraryPath |-> root,
      library |-> IF moved THEN shelf[root].library ELSE library,
      stats |-> IF moved THEN shelf[root].stats ELSE stats,
      shelf |-> IF moved
                THEN [r \in Roots \ {root} |->
                        IF r = libraryPath
                        THEN [library |-> library, stats |-> stats]
                        ELSE shelf[r]]
                ELSE shelf]

\* listSkills: resolves the library root anew, then lists it
listSkills ==
  LET a == afterResolve
  IN /\ libraryPath' = a.libraryPath
     /\ library' = a.library
     /\ stats' = a.stats
     /\ shelf' = a.shelf
     /\ lastOp' = [op |-> "listSkills", root |-> a.libraryPath,
                   outcome |-> "ok", value |-> listing(a.library, a.stats)]
     /\ UNCHANGED <<recorded, cache, now, fetches, config, repo,
                    marketplaceSources, creates, installs, importing, overtaken, http, panels>>

\* ------------------------------------------------------------------------
\* Import Bridge: from the library into the workspace
\* ------------------------------------------------------------------------

\* TARGET_FORMATS, restricted to two formats and to the fields importToRepo
\* reads; only codex has scaffoldDirs
TARGET_FORMATS ==
  [claude |-> [skillsDir |-> ".claude/skills"],
   codex |-> [skillsDir |-> ".codex/skills",
              scaffoldDirs |-> {"agents", "scripts", "references", "assets"}]]

Formats == DOMAIN TARGET_FORMATS

\* path.join(workspaceRoot, config.skillsDir, skill.id), below workspaceRoot
targetDirOf(format, id) == <<TARGET_FORMATS[format].skillsDir, id>>

ImportCancelled == "Import cancelled"

\* copyDirectorySync(src, dest) for the entries srcFiles of src: dest is
\* made if it is missing, then every entry is copied over
copyDirectorySync(rp, srcFiles, dest) ==
  LET old == IF dest \in DOMAIN rp THEN rp[dest] ELSE << >>
      dir == [f \in DOMAIN old \cup DOMAIN srcFiles |->
                IF f \in DOMAIN srcFiles THEN srcFiles[f] ELSE old[f]]
  IN [d \in DOMAIN rp \cup {dest} |-> IF d = dest THEN dir ELSE rp[d]]

\* the scaffold directories of the format, made where they are missing
scaffold(rp, format, dest) ==
  IF "scaffoldDirs" \notin DOMAIN TARGET_FORMATS[format]
  THEN rp
  ELSE [rp EXCEPT ![dest] =
          [f \in DOMAIN rp[dest] \cup TARGET_FORMATS[format].scaffoldDirs |->
             IF f \in DOMAIN rp[dest] THEN rp[dest][f] ELSE [dir |-> TRUE]]]

\* an importToRepo that overwrites an existing destination without asking
importToRepoOn_unasked(rp, lib, id, format, open, answer) ==
  LET dest == targetDirOf(format, id)
      cleared == [d \in DOMAIN rp \ {dest} |-> rp[d]]
  IN IF ~open
     THEN [outcome |-> "failed", message |-> "No workspace folder open",
           repo |-> rp, asked |-> FALSE, value |-> << >>]
     ELSE IF id \notin DOMAIN lib
     THEN [outcome |-> "failed", message |-> "ENOENT",
           repo |-> copyDirectorySync(cleared, << >>, dest),
           asked |-> FALSE, value |-> << >>]
     ELSE [outcome |-> "ok", message |-> "",
           repo |-> scaffold(copyDirectorySync(cleared, lib[id], dest),
                             format, dest),
           asked |-> FALSE, value |-> dest]

\* importToRepo(skill, format) on the workspace rp, the skill being the
\* directory id of the library lib as it is when the copy reads it; open
\* tells whether a workspace folder is open, answer is what the user
\* answers if asked.  A skill directory that is gone makes readdirSync
\* throw after the destination has been removed and made anew.
importToRepoOn(rp, lib, id, format, open, answer) ==
  LET dest == targetDirOf(format, id)
      exists == dest \in DOMAIN rp
      cleared == [d \in DOMAIN rp \ {dest} |-> rp[d]]
  IN IF ~open
     THEN [outcome |-> "failed", message |-> "No workspace folder open",
           repo |-> rp, asked |-> FALSE, value |-> << >>]
     ELSE IF exists /\ answer # "Overwrite"
     THEN [outcome |-> "failed", message |-> ImportCancelled,
           repo |-> rp, asked |-> TRUE, value |-> << >>]
     ELSE IF id \notin DOMAIN lib
     THEN [outcome |-> "failed", message |-> "ENOENT",
           repo |-> copyDirectorySync(cleared, << >>, dest),
           asked |-> exists, value |-> << >>]
     ELSE [outcome |-> "ok", message |-> "",
           repo |-> scaffold(copyDirectorySync(cleared, lib[id], dest),
                             format, dest),
           asked |-> exists, value |-> dest]

\* importMultipleToRepo from the i-th skill on, results holding the
\* destinations of the skills before it and dialogs the answers given so
\* far: a failing importToRepo ends the loop and results is dropped
RECURSIVE importLoop(_, _, _, _, _, _, _, _, _)
importLoop(rp, lib, ids, format, open, answers, i, results, dialogs) ==
  IF i > Len(ids)
  THEN [outcome |-> "ok", message |-> "", repo |-> rp, value |-> results,
        done |-> results, dialogs |-> dialogs]
  ELSE LET r == importToRepoOn(rp, lib, ids[i], format, open, answers[i])
           asked == IF r.asked
                    THEN Append(dialogs, <<ids[i], answers[i]>>)
                    ELSE dialogs
       IN IF r.outcome # "ok"
          THEN [outcome |-> "failed", message |-> r.message, repo |-> r.repo,
                value |-> << >>, done |-> results, dialogs |-> asked]
          ELSE importLoop(r.repo, lib, ids, format, open, answers, i + 1,
                          Append(results, r.value), asked)

importMultipleToRepoOn(rp, lib, ids, format, open, answers) ==
  importLoop(rp, lib, ids, format, open, answers, 1, << >>, << >>)

\* the command skilldock.importSkill on an item of the library tree, whose
\* skill may have been deleted since the tree was drawn
importSkillCommand(id, format, open, answer) ==
  IF format = Undefined
  THEN /\ lastOp' = [op |-> "importSkillCommand", outcome |-> "dismissed"]
       /\ UNCHANGED <<library, stats, recorded, cache, now, others>>
  ELSE LET r == importToRepoOn(repo, library, id, format, open, answer)
       IN /\ repo' = r.repo
          /\ lastOp' = [op |-> "importSkillCommand", id |-> id,
                        format |-> format, existed |-> targetDirOf(format, id) \in DOMAIN repo,
                        asked |-> r.asked,
                        answer |-> IF r.asked THEN answer ELSE Undefined,
                        outcome |-> r.outcome, message |-> r.message,
                        info |-> r.outcome = "ok",
                        errorDialog |-> r.outcome # "ok"
                                        /\ r.message # ImportCancelled]
          /\ UNCHANGED <<library, stats, recorded, cache, now, fetches,
                         config, libraryPath, shelf,
                         marketplaceSources, creates, installs, importing, overtaken, http, panels>>

\* ManagerPanel._handleImport: the skill is read first
handleImport(id, format, open, answer) ==
  IF readSkill(library, id) = Null
  THEN /\ lastOp' = [op |-> "handleImport", outcome |-> "dismissed"]
       /\ UNCHANGED <<library, stats, recorded, cache, now, others>>
  ELSE LET r == importToRepoOn(repo, library, id, format, open, answer)
       IN /\ repo' = r.repo
          /\ lastOp' = [op |-> "handleImport", id |-> id,
                        format |-> format, existed |-> targetDirOf(format, id) \in DOMAIN repo,
                        asked |-> r.asked,
                        answer |-> IF r.asked THEN answer ELSE Undefined,
                        outcome |-> r.outcome, message |-> r.message,
                        info |-> r.outcome = "ok",
                        errorDialog |-> r.outcome # "ok"
                                        /\ r.message # ImportCancelled]
          /\ UNCHANGED <<library, stats, recorded, cache, now, fetches,
                         config, libraryPath, shelf,
                         marketplaceSources, creates, installs, importing, overtaken, http, panels>>

\* the skills the user may pick from a listing: the listed ids, any of
\* them, in the order of the listing
RECURSIVE picksOf(_)
picksOf(listed) ==
  IF listed = << >>
  THEN {<< >>}
  ELSE LET rest == picksOf(Tail(listed))
       IN rest \cup {<<Head(listed).id>> \o p : p \in rest}

\* interactiveImport: lists the library, lets the user pick skills and a
\* format, imports the picked skills and tells the outcome
interactiveImport(selected, format, open, answers) ==
  LET a == afterResolve
      skills == listing(a.library, a.stats)
      r == importMultipleToRepoOn(repo, a.library, selected, format, open,
                                  answers)
      imports == skills # << >> /\ selected # << >> /\ format # Undefined
  IN /\ selected \in picksOf(skills)
     /\ libraryPath' = a.libraryPath
     /\ library' = a.library
     /\ stats' = a.stats
     /\ shelf' = a.shelf
     /\ IF imports
        THEN /\ repo' = r.repo
             /\ lastOp' = [op |-> "interactiveImport", ids |-> selected,
                           format |-> format, dialogs |-> r.dialogs,
                           outcome |-> r.outcome, message |-> r.message,
                           done |-> r.done, returned |-> r.value,
                           info |-> IF r.outcome = "ok"
                                    THEN Len(r.value) ELSE 0,
                           errorDialog |-> r.outcome # "ok"
                                           /\ r.message # ImportCancelled]
        ELSE /\ repo' = repo
             /\ lastOp' = [op |-> "interactiveImport",
                           outcome |-> "dismissed"]
     /\ UNCHANGED <<recorded, cache, now, fetches, config,
                    marketplaceSources, creates, installs, importing, overtaken, http, panels>>

\* ------------------------------------------------------------------------
\* Marketplace Client: installing
\* ------------------------------------------------------------------------

\* skills the marketplace offers: RemoteSkill restricted to the fields
\* installSkill reads
RemoteSkills ==
  { [id |-> id, metadata |-> i.metadata, body |-> i.body] :
      id \in RemoteIds, i \in RemoteInputs }

\* what showWarningMessage resolves to: a button, or undefined when dismissed
Answers == {"Overwrite", "Cancel", Undefined}

\* installSkill, `overwrite` being the test ans === 'Overwrite'
installSkillSteps(remote, ans, overwrite) ==
  LET existing == readSkill(library, remote.id)
      label == [op |-> "installSkill", id |-> remote.id, remote |-> remote,
                answer |-> IF existing # Null THEN ans ELSE Undefined]
  IN IF existing # Null /\ ~overwrite
     THEN /\ lastOp' = label @@ [outcome |-> "declined", fired |-> FALSE]
          /\ UNCHANGED <<library, stats, recorded, cache, now, others>>
     ELSE LET r == IF existing # Null
                   THEN updateSkillOn(library, remote.id, remote.metadata, remote.body)
                   ELSE createSkillOn(library, remote.id, remote.metadata, remote.body)
          IN IF r.outcome # "ok"
             THEN /\ lastOp' = label @@ [outcome |-> r.outcome, fired |-> FALSE]
                  /\ UNCHANGED <<library, stats, recorded, cache, now, others>>
             ELSE /\ countOf(stats, remote.id) < MaxInstalls
                  /\ library' = r.lib
                  /\ stats' = statsAfterInstall(stats, remote.id,
                                                remote.metadata.version, now)
                  /\ recorded' = bump(recorded, remote.id)
                  /\ lastOp' = label @@ [outcome |-> "ok", fired |-> TRUE]
                  /\ UNCHANGED <<cache, now, others>>

\* installSkill that takes every answer for a confirmation
installSkill_anyAnswer(remote, ans) == installSkillSteps(remote, ans, TRUE)

installSkill(remote, ans) == installSkillSteps(remote, ans, ans = "Overwrite")

updateSkillSilently(remote) ==
  LET r == updateSkillOn(library, remote.id, remote.metadata, remote.body)
      label == [op |-> "updateSkillSilently", id |-> remote.id, remote |-> remote]
  IN IF r.outcome # "ok"
     THEN /\ lastOp' = label @@ [outcome |-> r.outcome, fired |-> FALSE]
          /\ UNCHANGED <<library, stats, recorded, cache, now, others>>
     ELSE /\ countOf(stats, remote.id) < MaxInstalls
          /\ library' = r.lib
          /\ stats' = statsAfterInstall(stats, remote.id,
                                        remote.metadata.version, now)
          /\ recorded' = bump(recorded, remote.id)
          /\ lastOp' = label @@ [outcome |-> "ok", fired |-> TRUE]
          /\ UNCHANGED <<cache, now, others>>

\* ------------------------------------------------------------------------
\* Marketplace Client: fetching
\* ------------------------------------------------------------------------

CACHE_TTL_MS == 5 * 60 * 1000

\* the step of the clock: half the time-to-live, so that an entry is seen
\* younger than, exactly as old as, and older than the time-to-live
TickMs == CACHE_TTL_MS \div 2

\* source.path is the sequence of its segments, << >> for ''
BUILTIN_MARKETPLACE_SOURCES ==
  << [id |-> "anthropics/skills", owner |-> "anthropics", repo |-> "skills",
      branch |-> "main", path |-> << >>],
     [id |-> "openai/skills", owner |-> "openai", repo |-> "skills",
      branch |-> "main", path |-> << >>],
     [id |-> "github/awesome-copilot/skills", owner |-> "github",
      repo |-> "awesome-copilot", branch |-> "main", path |-> <<"skills">>] >>

\* getSources() with no custom source configured
getSources == BUILTIN_MARKETPLACE_SOURCES

\* what the Git Trees API answers for a source: json.tree, each path the
\* sequence of its segments
RemoteTree(source) ==
  IF source.id = "anthropics/skills"
  THEN << [path |-> <<"alpha">>, type |-> "tree"],
          [path |-> <<"alpha", "SKILL.md">>, type |-> "blob"],
          [path |-> <<"README.md">>, type |-> "blob"],
          [path |-> <<"beta", "skill.md">>, type |-> "blob"] >>
  ELSE IF source.id = "openai/skills"
  THEN << [path |-> <<"SKILL.md">>, type |-> "blob"] >>
  ELSE << [path |-> <<"outside", "SKILL.md">>, type |-> "blob"],
          [path |-> <<"skills", "gamma", "SKILL.md">>, type |-> "blob"],
          [path |-> <<"skills", "gamma", "notes.md">>, type |-> "blob"] >>

\* the document raw.githubusercontent.com serves for a path of a source
RemoteDoc(source, repoPath) ==
  [name |-> IF Len(repoPath) >= 2 THEN repoPath[Len(repoPath) - 1] ELSE "",
   description |-> "",
   version |-> IF source.owner = "anthropics" THEN "1.0" ELSE Undefined,
   body |-> <<"b">>]

\* _fetchTree: the paths of the blobs of the listing
fetchTree(source) ==
  LET blobs == SelectSeq(RemoteTree(source), LAMBDA item : item.type = "blob")
  IN [i \in 1..Len(blobs) |-> blobs[i].path]

\* lower.endsWith('/skill.md') || lower === 'skill.md', lower being
\* p.toLowerCase(): the last segment is skill.md in some letter case
isSkillMdPath(p) == p[Len(p)] \in {"SKILL.md", "skill.md", "Skill.md"}

\* p.startsWith(prefix), prefix being the segments of source.path and '/'
startsWith(p, prefix) ==
  Len(p) > Len(prefix) /\ SubSeq(p, 1, Len(prefix)) = prefix

\* the SKILL.md paths of a listing under the source's path prefix
filterPaths(source, treePaths) ==
  LET skillMdPaths == SelectSeq(treePaths, isSkillMdPath)
  IN IF source.path # << >>
     THEN SelectSeq(skillMdPaths, LAMBDA p : startsWith(p, source.path))
     ELSE skillMdPaths

\* _fetchSkillMd, once the document has arrived (parseFrontmatter never
\* leaves the name empty, so the name is never derived from the directory)
fetchSkillMd(source, repoPath) ==
  LET parsed == parseFrontmatter(RemoteDoc(source, repoPath))
      dirName == IF Len(repoPath) >= 2
                 THEN repoPath[Len(repoPath) - 1]
                 ELSE source.repo
  IN [source |-> source.id, id |-> dirName, metadata |-> parsed.metadata,
      body |-> parsed.body, repoPath |-> repoPath,
      downloadUrl |-> <<"https:", "", "raw.githubusercontent.com",
                        source.owner, source.repo, source.branch>>
                        \o repoPath]

\* What the network does during one fetchSource: fail is "token" when
\* resolving the token is rejected, "tree" when the tree request is, and
\* "none" otherwise; ok is the set of paths whose document request succeeds.
DocPaths(source) ==
  LET f == filterPaths(source, fetchTree(source))
  IN {f[i] : i \in 1..Len(f)}

Nets(source) ==
  {[fail |-> "token", ok |-> {}], [fail |-> "tree", ok |-> {}]}
    \cup {[fail |-> "none", ok |-> S] : S \in SUBSET DocPaths(source)}

\* no request was made
NoNet == [fail |-> "none", ok |-> {}]

\* the fulfilled results of Promise.allSettled, in the order of the paths
RECURSIVE settled(_, _, _)
settled(source, paths, ok) ==
  IF paths = << >>
  THEN << >>
  ELSE (IF Head(paths) \in ok
        THEN <<fetchSkillMd(source, Head(paths))>>
        ELSE << >>) \o settled(source, Tail(paths), ok)

\* a walk in which one failed document request fails the walk
walk_allOrNothing(source, net) ==
  IF net.fail = "token"
  THEN [outcome |-> "failed", value |-> << >>, requests |-> 0]
  ELSE IF net.fail = "tree"
  THEN [outcome |-> "failed", value |-> << >>, requests |-> 1]
  ELSE LET filtered == filterPaths(source, fetchTree(source))
       IN IF DocPaths(source) \subseteq net.ok
          THEN [outcome |-> "ok",
                value |-> settled(source, filtered, net.ok),
                requests |-> 1 + Len(filtered)]
          ELSE [outcome |-> "failed", value |-> << >>,
                requests |-> 1 + Len(filtered)]

\* fetchSource after the cache check: token, tree, documents
walk(source, net) ==
  IF net.fail = "token"
  THEN [outcome |-> "failed", value |-> << >>, requests |-> 0]
  ELSE IF net.fail = "tree"
  THEN [outcome |-> "failed", value |-> << >>, requests |-> 1]
  ELSE LET filtered == filterPaths(source, fetchTree(source))
       IN [outcome |-> "ok",
           value |-> settled(source, filtered, net.ok),
           requests |-> 1 + Len(filtered)]

\* a cache check that also serves an entry exactly CACHE_TTL_MS old
isFresh_inclusive(c, id, t) ==
  id \in DOMAIN c /\ t - c[id].timestamp <= CACHE_TTL_MS

\* cached && Date.now() - cached.timestamp < CACHE_TTL_MS
isFresh(c, id, t) ==
  id \in DOMAIN c /\ t - c[id].timestamp < CACHE_TTL_MS

\* a cache check that never finds an entry
cacheHit_never(c, id, t, force) == FALSE

\* the cache check of fetchSource
cacheHit(c, id, t, force) == ~force /\ isFresh(c, id, t)

\* a cache that keeps the entry it has
cacheSet_keepFirst(c, id, data, t) ==
  IF id \in DOMAIN c THEN c
  ELSE [d \in DOMAIN c \cup {id} |->
          IF d = id THEN [data |-> data, timestamp |-> t] ELSE c[d]]

\* this._cache.set(id, {data, timestamp})
cacheSet(c, id, data, t) ==
  [d \in DOMAIN c \cup {id} |->
     IF d = id THEN [data |-> data, timestamp |-> t] ELSE c[d]]

\* fetchSource on cache c at time t: outcome, returned list, number of
\* requests, cache afterwards, and the network behaviour it consumed.
\* Time passes in Tick only: a walk that takes time is a Tick before the
\* call, because an entry that is stale at the check is stale afterwards.
\* a fetchSource that sets the cache entry only when every document
\* request was fulfilled
fetchSourceOn_completeOnly(c, t, source, force, net) ==
  IF cacheHit(c, source.id, t, force)
  THEN [outcome |-> "ok", value |-> c[source.id].data, requests |-> 0,
        cache |-> c, net |-> NoNet]
  ELSE LET w == walk(source, net)
       IN [outcome |-> w.outcome, value |-> w.value, requests |-> w.requests,
           cache |-> IF w.outcome = "ok" /\ net.ok = DocPaths(source)
                     THEN cacheSet(c, source.id, w.value, t)
                     ELSE c,
           net |-> net]

fetchSourceOn(c, t, source, force, net) ==
  IF cacheHit(c, source.id, t, force)
  THEN [outcome |-> "ok", value |-> c[source.id].data, requests |-> 0,
        cache |-> c, net |-> NoNet]
  ELSE LET w == walk(source, net)
       IN [outcome |-> w.outcome, value |-> w.value, requests |-> w.requests,
           cache |-> IF w.outcome = "ok"
                     THEN cacheSet(c, source.id, w.value, t)
                     ELSE c,
           net |-> net]

\* the age of the entry of id, -1 when there is none
ageOf(c, id, t) == IF id \in DOMAIN c THEN t - c[id].timestamp ELSE -1

\* a fetchSource that drops the entry of its source when it fails
fetchSource_evicting(source, force, net) ==
  LET r == fetchSourceOn(cache, now, source, force, net)
  IN /\ cache' = IF r.outcome = "failed"
                  THEN [d \in DOMAIN r.cache \ {source.id} |-> r.cache[d]]
                  ELSE r.cache
     /\ lastOp' = [op |-> "fetchSource", id |-> source.id,
                   branch |-> source.branch, force |-> force,
                   net |-> r.net, age |-> ageOf(cache, source.id, now),
                   outcome |-> r.outcome, value |-> r.value,
                   requests |-> r.requests]
     /\ UNCHANGED <<library, stats, recorded, now, others>>

fetchSource(source, force, net) ==
  LET r == fetchSourceOn(cache, now, source, force, net)
  IN /\ cache' = r.cache
     /\ lastOp' = [op |-> "fetchSource", id |-> source.id,
                   branch |-> source.branch, force |-> force,
                   net |-> r.net, age |-> ageOf(cache, source.id, now),
                   outcome |-> r.outcome, value |-> r.value,
                   requests |-> r.requests]
     /\ UNCHANGED <<library, stats, recorded, now, others>>

\* the orders in which n concurrent requests can complete: the sequences of
\* 1..n without repetition
CompletionOrders(n) ==
  {order \in [1..n -> 1..n] :
     \A i, j \in 1..n : i # j => order[i] # order[j]}

\* how the request for the i-th path settles
settle(source, paths, ok, i) ==
  IF paths[i] \in ok
  THEN [status |-> "fulfilled", value |-> fetchSkillMd(source, paths[i])]
  ELSE [status |-> "rejected"]

\* Promise.allSettled over filtered.map(_fetchSkillMd): the k-th request to
\* complete, order[k], puts its result in its own slot of the array
RECURSIVE fillSlots(_, _, _, _, _, _)
fillSlots(source, paths, ok, order, k, results) ==
  IF k > Len(order) THEN results
  ELSE fillSlots(source, paths, ok, order, k + 1,
                 [results EXCEPT ![order[k]] =
                    settle(source, paths, ok, order[k])])

\* the results in the order in which the requests completed
allSettled_byCompletion(source, paths, ok, order) ==
  [k \in 1..Len(order) |-> settle(source, paths, ok, order[k])]

allSettled(source, paths, ok, order) ==
  fillSlots(source, paths, ok, order, 1,
            [i \in 1..Len(paths) |-> [status |-> "pending"]])

\* the loop over results that pushes the fulfilled values
RECURSIVE collect(_)
collect(results) ==
  IF results = << >> THEN << >>
  ELSE (IF Head(results).status = "fulfilled"
        THEN <<Head(results).value>>
        ELSE << >>) \o collect(Tail(results))

\* a forced fetchSource whose token and tree requests succeed, the document
\* requests completing in the given order
fetchSourceArriving(source, ok, order) ==
  LET filtered == filterPaths(source, fetchTree(source))
      skills == collect(allSettled(source, filtered, ok, order))
  IN /\ cache' = cacheSet(cache, source.id, skills, now)
     /\ lastOp' = [op |-> "fetchSourceArriving", id |-> source.id,
                   paths |-> filtered, ok |-> ok, order |-> order,
                   outcome |-> "ok", value |-> skills]
     /\ UNCHANGED <<library, stats, recorded, now, others>>

\* the aggregate of a fetchAll that fails when one of its sources fails
aggregate_all(results) ==
  IF \E i \in 1..Len(results) : results[i].outcome # "ok"
  THEN [outcome |-> "failed", value |-> << >>]
  ELSE [outcome |-> "ok",
        value |-> LET RECURSIVE cat(_)
                      cat(i) == IF i > Len(results) THEN << >>
                                ELSE results[i].value \o cat(i + 1)
                  IN cat(1)]

\* the loop of fetchAll over the settled results: the values of the
\* fulfilled ones, in the order of the sources
aggregate(results) ==
  [outcome |-> "ok",
   value |-> LET RECURSIVE cat(_)
                 cat(i) == IF i > Len(results) THEN << >>
                           ELSE (IF results[i].outcome = "ok"
                                 THEN results[i].value
                                 ELSE << >>) \o cat(i + 1)
             IN cat(1)]

\* sources.map(s => this.fetchSource(s, force)): every fetchSource runs its
\* cache check before the first of them is suspended, so each sees the
\* cache c as fetchAll found it
RECURSIVE fetchEach(_, _, _, _, _)
fetchEach(c, t, force, nets, i) ==
  IF i > Len(getSources)
  THEN << >>
  ELSE <<fetchSourceOn(c, t, getSources[i], force, nets[i])>>
         \o fetchEach(c, t, force, nets, i + 1)

\* the cache after the walks of a fetchAll: every source that walked
\* successfully has set its own entry
RECURSIVE cacheAfter(_, _, _)
cacheAfter(c, results, i) ==
  IF i > Len(results)
  THEN c
  ELSE cacheAfter(IF results[i].outcome = "ok" /\ results[i].requests > 0
                  THEN cacheSet(c, getSources[i].id,
                                results[i].cache[getSources[i].id].data,
                                results[i].cache[getSources[i].id].timestamp)
                  ELSE c,
                  results, i + 1)

fetchAll(force, nets) ==
  LET results == fetchEach(cache, now, force, nets, 1)
      all == aggregate(results)
  IN /\ cache' = cacheAfter(cache, results, 1)
     /\ lastOp' = [op |-> "fetchAll", force |-> force,
                   nets |-> [i \in 1..Len(results) |-> results[i].net],
                   outcome |-> all.outcome, value |-> all.value]
     /\ UNCHANGED <<library, stats, recorded, now, others>>

\* the callers whose fetchSource call is between its cache check and its
\* cache update
walking ==
  {c \in DOMAIN fetches : fetches[c].phase \in {"FetchingTree", "FetchingDocuments"}}

\* those of them that fetch one of the sources ids
inFlight(ids) == {c \in walking : fetches[c].source.id \in ids}

clearCache ==
  /\ cache' = << >>
  /\ overtaken' = overtaken \cup walking
  /\ lastOp' = [op |-> "clearCache"]
  /\ UNCHANGED <<library, stats, recorded, now, fetches, config, libraryPath,
                 shelf, repo, marketplaceSources, creates, installs,
                 importing, http, panels>>

Tick ==
  /\ now < MaxTicks * TickMs
  /\ now' = now + TickMs
  /\ lastOp' = [op |-> "Tick"]
  /\ UNCHANGED <<library, stats, recorded, cache, others>>

\* ------------------------------------------------------------------------
\* Marketplace Client: custom sources.  A URL string is the sequence of its
\* pieces, "/" and " " being pieces of their own.
\* ------------------------------------------------------------------------

Slash == "/"

\* the strings handed to addCustomSource
Urls ==
  { <<"https:", "/", "/", "github.com", "/", "org", "/", "repo">>,
    <<"https:", "/", "/", "github.com", "/", "org", "/", "repo", "/">>,
    <<" ", "org", "/", "repo">>,
    <<"https:", "/", "/", "github.com", "/", "org", "/", "repo", "/",
      "tree", "/", "dev", "/", "sub">>,
    <<"invalid">>,
    <<"https:", "/", "/", "github.com", "/", "org", "/", "repo", "/", "tree">> }

\* replace(/\/+$/, '')
RECURSIVE dropSlashes(_)
dropSlashes(s) ==
  IF s # << >> /\ s[Len(s)] = Slash
  THEN dropSlashes(SubSeq(s, 1, Len(s) - 1))
  ELSE s

\* the runs of [^/] of a string, as strings, from piece i on; cur is the run
\* being read
RECURSIVE runs(_, _, _)
runs(s, i, cur) ==
  IF i > Len(s) THEN <<cur>>
  ELSE IF s[i] = Slash THEN <<cur>> \o runs(s, i + 1, "")
  ELSE runs(s, i + 1, cur \o s[i])

\* the runs from the k-th on, with "/" between them
RECURSIVE joinFrom(_, _)
joinFrom(segs, k) ==
  IF k > Len(segs) THEN ""
  ELSE IF k = Len(segs) THEN segs[k]
  ELSE segs[k] \o Slash \o joinFrom(segs, k + 1)

\* /^https?:\/\/github\.com\/([^/]+)\/([^/]+?)(?:\/tree\/([^/]+)(?:\/(.+))?)?$/
urlMatch(segs) ==
  /\ Len(segs) >= 5
  /\ segs[1] \in {"http:", "https:"}
  /\ segs[2] = ""
  /\ segs[3] = "github.com"
  /\ segs[4] # ""
  /\ segs[5] # ""
  /\ \/ Len(segs) = 5
     \/ /\ Len(segs) >= 7
        /\ segs[6] = "tree"
        /\ segs[7] # ""
        /\ Len(segs) = 7 \/ joinFrom(segs, 8) # ""

\* /^([^/]+)\/([^/]+)$/
shortMatch(segs) == Len(segs) = 2 /\ segs[1] # "" /\ segs[2] # ""

parseGitHubUrl(input) ==
  LET trimmed == dropSlashes(trim(input))
      segs == runs(trimmed, 1, "")
      full == urlMatch(segs)
      subpath == IF full THEN joinFrom(segs, 8) ELSE ""
      owner == IF full THEN segs[4] ELSE segs[1]
      repository == IF full THEN segs[5] ELSE segs[2]
  IN IF ~full /\ ~shortMatch(segs) THEN Null
     ELSE [id |-> IF subpath # ""
                  THEN owner \o Slash \o repository \o Slash \o subpath
                  ELSE owner \o Slash \o repository,
           owner |-> owner,
           repo |-> repository,
           branch |-> IF full /\ Len(segs) >= 7 THEN segs[7] ELSE "main",
           path |-> IF subpath # "" THEN SubSeq(segs, 8, Len(segs)) ELSE << >>]

\* parsed?.id
idOf(url) ==
  LET parsed == parseGitHubUrl(url)
  IN IF parsed = Null THEN Undefined ELSE parsed.id

\* getSources(): the built-in sources, then the parsed custom ones
RECURSIVE parsedOf(_)
parsedOf(urls) ==
  IF urls = << >> THEN << >>
  ELSE LET parsed == parseGitHubUrl(Head(urls))
       IN (IF parsed = Null THEN << >> ELSE <<parsed>>) \o parsedOf(Tail(urls))

getSourcesWith(urls) == BUILTIN_MARKETPLACE_SOURCES \o parsedOf(urls)

\* urls.includes(url)
includes(urls, url) == \E i \in 1..Len(urls) : urls[i] = url

\* addCustomSource that does not look for the url in the list
addCustomSourceOn_unchecked(urls, url) ==
  IF parseGitHubUrl(url) = Null
  THEN [outcome |-> "failed", message |-> "Invalid GitHub URL", urls |-> urls]
  ELSE [outcome |-> "ok", message |-> "", urls |-> Append(urls, url)]

\* addCustomSource on the persisted list urls: outcome and list afterwards
addCustomSourceOn(urls, url) ==
  IF parseGitHubUrl(url) = Null
  THEN [outcome |-> "failed", message |-> "Invalid GitHub URL", urls |-> urls]
  ELSE IF includes(urls, url)
  THEN [outcome |-> "failed", message |-> "Source already exists",
        urls |-> urls]
  ELSE [outcome |-> "ok", message |-> "", urls |-> Append(urls, url)]

addCustomSource(url) ==
  LET r == addCustomSourceOn(marketplaceSources, url)
  IN /\ marketplaceSources' = r.urls
     /\ lastOp' = [op |-> "addCustomSource", url |-> url,
                   outcome |-> r.outcome, message |-> r.message]
     /\ UNCHANGED <<library, stats, recorded, cache, now, fetches, config,
                    libraryPath, shelf, repo, creates, installs, importing, overtaken, http, panels>>

\* the filter of removeCustomSource that drops the first match only
keptUrls_firstOnly(urls, sourceId) ==
  LET hits == {i \in 1..Len(urls) : idOf(urls[i]) = sourceId}
  IN IF hits = {} THEN urls
     ELSE LET k == CHOOSE i \in hits : \A j \in hits : i <= j
          IN SubSeq(urls, 1, k - 1) \o SubSeq(urls, k + 1, Len(urls))

\* the urls removeCustomSource keeps
keptUrls(urls, sourceId) ==
  SelectSeq(urls, LAMBDA url : idOf(url) # sourceId)

\* this._cache.delete(sourceId)
cacheDelete(c, id) == [d \in DOMAIN c \ {id} |-> c[d]]

removeCustomSource(sourceId) ==
  /\ marketplaceSources' = keptUrls(marketplaceSources, sourceId)
  /\ cache' = cacheDelete(cache, sourceId)
  /\ overtaken' = overtaken \cup inFlight({sourceId})
  /\ lastOp' = [op |-> "removeCustomSource", sourceId |-> sourceId,
                outcome |-> "ok",
                removed |-> Len(marketplaceSources)
                              - Len(keptUrls(marketplaceSources, sourceId)),
                evicted |-> sourceId \in DOMAIN cache]
  /\ UNCHANGED <<library, stats, recorded, now, fetches, config,
                 libraryPath, shelf, repo, creates, installs, importing, http, panels>>

\* ------------------------------------------------------------------------
\* Marketplace Client: a fetchSource call, await by await
\* ------------------------------------------------------------------------

\* the callers that may each have one fetchSource call in progress
Callers == {"first", "second"}

\* a caller that has not called fetchSource
NoFetch ==
  [phase |-> "Idle", source |-> Null, force |-> FALSE,
   paths |-> << >>, value |-> << >>]

\* fetchSource up to its first await: a cache hit returns at once, a miss
\* goes on to resolve the token and request the tree
beginFetch(c, source, force) ==
  /\ fetches[c].phase = "Idle"
  /\ IF cacheHit(cache, source.id, now, force)
     THEN /\ lastOp' = [op |-> "beginFetch", call |-> c, id |-> source.id,
                        force |-> force, outcome |-> "hit",
                        value |-> cache[source.id].data]
          /\ UNCHANGED fetches
     ELSE /\ fetches' = [fetches EXCEPT ![c] =
                           [phase |-> "FetchingTree", source |-> source,
                            force |-> force, paths |-> << >>,
                            value |-> << >>]]
          /\ lastOp' = [op |-> "beginFetch", call |-> c, id |-> source.id,
                        force |-> force, outcome |-> "miss", value |-> << >>]
  /\ UNCHANGED <<library, stats, recorded, cache, now, config, libraryPath, shelf, repo,
                 marketplaceSources, creates, installs, importing, overtaken, http, panels>>

\* how _resolveToken and _fetchTree may settle: one of them rejects, or
\* neither does
TreeOutcomes == {"token", "tree", "none"}

\* where a call stands once _resolveToken and _fetchTree have settled: a
\* rejection of either leaves fetchSource, a listing is filtered
afterTree(source, fail) ==
  IF fail # "none"
  THEN [phase |-> "Failed", paths |-> << >>]
  ELSE [phase |-> "FetchingDocuments",
        paths |-> filterPaths(source, fetchTree(source))]

\* a call that a rejected document request makes fail
afterDocuments_rejecting(source, paths, ok) ==
  IF \E i \in 1..Len(paths) : paths[i] \notin ok
  THEN [phase |-> "Failed", value |-> << >>]
  ELSE [phase |-> "Cached", value |-> settled(source, paths, ok)]

\* where a call stands once Promise.allSettled over the document requests
\* has resolved, ok being the paths whose request was fulfilled: the
\* fulfilled ones are collected
afterDocuments(source, paths, ok) ==
  [phase |-> "Cached", value |-> settled(source, paths, ok)]

\* the token and tree requests of call c settle
treeArrives(c, fail) ==
  /\ fetches[c].phase = "FetchingTree"
  /\ LET f == fetches[c]
         r == afterTree(f.source, fail)
     IN /\ fetches' = [fetches EXCEPT ![c] =
                         [f EXCEPT !.phase = r.phase, !.paths = r.paths]]
        /\ lastOp' = [op |-> "treeArrives", call |-> c, id |-> f.source.id,
                      fail |-> fail, phase |-> r.phase]
  /\ UNCHANGED <<library, stats, recorded, cache, now, config, libraryPath, shelf, repo,
                 marketplaceSources, creates, installs, importing, overtaken, http, panels>>

\* the document requests of call c have all settled: the call sets the
\* cache entry of its source and returns
documentsSettle(c, ok) ==
  /\ fetches[c].phase = "FetchingDocuments"
  /\ LET f == fetches[c]
         r == afterDocuments(f.source, f.paths, ok)
     IN /\ fetches' = [fetches EXCEPT ![c] =
                         [f EXCEPT !.phase = r.phase, !.value = r.value]]
        /\ cache' = IF r.phase = "Cached"
                    THEN cacheSet(cache, f.source.id, r.value, now)
                    ELSE cache
        /\ lastOp' = [op |-> "documentsSettle", call |-> c,
                      id |-> f.source.id, ok |-> ok, phase |-> r.phase,
                      value |-> r.value]
  /\ UNCHANGED <<library, stats, recorded, now, config, libraryPath, shelf, repo,
                 marketplaceSources, creates, installs, importing, overtaken, http, panels>>

\* ------------------------------------------------------------------------
\* Storage Engine: a createSkill call, await by await.  While calls overlap
\* a SKILL.md can be empty (opened, not yet written) or hold the head of
\* one content and the tail of another.
\* ------------------------------------------------------------------------

\* a caller that has not called createSkill
NoCreate == [phase |-> "Idle"]

\* a file that was truncated and has not been written
EmptyFile == [empty |-> TRUE]

\* the number of characters of a file: those of
\* `---\n${yamlStr}\n---\n\n${body.trim()}\n` for a whole content
RECURSIVE fileLength(_)
fileLength(file) ==
  IF "empty" \in DOMAIN file THEN 0
  ELSE IF "head" \in DOMAIN file THEN fileLength(file.tail)
  ELSE Len("---\nname: ") + Len(file.name)
         + Len("\ndescription: ") + Len(file.description)
         + (IF file.version = Undefined THEN 0
            ELSE Len("\nmetadata:\n  version: \"\"") + Len(file.version))
         + Len("\n---\n\n") + Len(file.body) + 1

\* write(fd, content) at offset 0 of a file opened by this call: content
\* replaces the first characters of what the file holds by then
overlay(content, file) ==
  IF fileLength(content) >= fileLength(file) THEN content
  ELSE [head |-> content, tail |-> file]

\* createSkill up to the answer of pathExists(skillDir)
beginCreate(c, id, metadata, body) ==
  /\ creates[c].phase = "Idle"
  /\ IF dirExists(library, id)
     THEN /\ creates' = [creates EXCEPT ![c] =
                           [phase |-> "Failed", id |-> id,
                            content |-> serializeSkill(metadata, body),
                            message |-> "already exists"]]
          /\ lastOp' = [op |-> "beginCreate", call |-> c, id |-> id,
                        outcome |-> "failed", message |-> "already exists"]
     ELSE /\ creates' = [creates EXCEPT ![c] =
                           [phase |-> "Checked", id |-> id,
                            content |-> serializeSkill(metadata, body),
                            message |-> ""]]
          /\ lastOp' = [op |-> "beginCreate", call |-> c, id |-> id,
                        outcome |-> "absent", message |-> ""]
  /\ UNCHANGED <<library, stats, recorded, cache, now, fetches, config,
                 libraryPath, shelf, repo, marketplaceSources, installs, importing, overtaken, http, panels>>

\* await this.ensureDirectory(skillDir)
mkdirStep(c) ==
  /\ creates[c].phase = "Checked"
  /\ library' = IF dirExists(library, creates[c].id) THEN library
                ELSE [d \in DOMAIN library \cup {creates[c].id} |->
                        IF d = creates[c].id THEN << >> ELSE library[d]]
  /\ creates' = [creates EXCEPT ![c].phase = "Made"]
  /\ lastOp' = [op |-> "mkdirStep", call |-> c, id |-> creates[c].id]
  /\ UNCHANGED <<stats, recorded, cache, now, fetches, config,
                 libraryPath, shelf, repo, marketplaceSources, installs, importing, overtaken, http, panels>>

\* fs.writeFile, first half: open(skillFile, 'w') creates or truncates
openStep(c) ==
  /\ creates[c].phase = "Made"
  /\ library' = writeFile(library, creates[c].id, SkillMd, EmptyFile)
  /\ creates' = [creates EXCEPT ![c].phase = "Opened"]
  /\ lastOp' = [op |-> "openStep", call |-> c, id |-> creates[c].id]
  /\ UNCHANGED <<stats, recorded, cache, now, fetches, config,
                 libraryPath, shelf, repo, marketplaceSources, installs, importing, overtaken, http, panels>>

\* fs.writeFile, second half: the content is written from offset 0 on
writeStep(c) ==
  /\ creates[c].phase = "Opened"
  /\ library' = writeFile(library, creates[c].id, SkillMd,
                          overlay(creates[c].content,
                                  library[creates[c].id][SkillMd]))
  /\ creates' = [creates EXCEPT ![c].phase = "Written"]
  /\ lastOp' = [op |-> "writeStep", call |-> c, id |-> creates[c].id]
  /\ UNCHANGED <<stats, recorded, cache, now, fetches, config,
                 libraryPath, shelf, repo, marketplaceSources, installs, importing, overtaken, http, panels>>

\* this._onDidChange.fire(), readSkill(id), return: read is the content of
\* SKILL.md that readSkill parses
returnStep(c) ==
  /\ creates[c].phase = "Written"
  /\ creates' = [creates EXCEPT ![c].phase = "Done"]
  /\ lastOp' = [op |-> "returnStep", call |-> c, id |-> creates[c].id,
                outcome |-> "ok", fired |-> TRUE,
                read |-> library[creates[c].id][SkillMd]]
  /\ UNCHANGED <<library, stats, recorded, cache, now, fetches, config,
                 libraryPath, shelf, repo, marketplaceSources, installs, importing, overtaken, http, panels>>

\* ------------------------------------------------------------------------
\* Frontmatter codec, line by line.  A content is the sequence of its
\* lines (the pieces between its "\n"; a content that ends with "\n" ends
\* with an empty line).  A line of a header is a top-level key with the
\* YAML value under it.
\* ------------------------------------------------------------------------

\* YAML values as YAML.parse returns them
Str(s) == [k |-> "str", s |-> s]
YNull == [k |-> "null"]
YSeq(q) == [k |-> "seq", items |-> q]
YMap(m) == [k |-> "map", fields |-> m]

\* the value of a property that an object does not have
YUndefined == [k |-> "undefined"]

\* lines: "---", an empty line, a line of text, a key with its value, a
\* line that is not YAML
Fence == [t |-> "fence"]
Blank == [t |-> "blank"]
Text(s) == [t |-> "text", s |-> s]
Entry(key, val) == [t |-> "entry", key |-> key, val |-> val]
Broken == [t |-> "broken"]

\* String.prototype.trim on lines: the empty lines at both ends go; the
\* empty string is one empty line
RECURSIVE dropBlanks(_)
dropBlanks(lines) ==
  IF lines # << >> /\ Head(lines).t = "blank" THEN dropBlanks(Tail(lines))
  ELSE lines

RECURSIVE dropBlanksEnd(_)
dropBlanksEnd(lines) ==
  IF lines # << >> /\ lines[Len(lines)].t = "blank"
  THEN dropBlanksEnd(SubSeq(lines, 1, Len(lines) - 1))
  ELSE lines

trimLines(lines) ==
  LET t == dropBlanksEnd(dropBlanks(lines))
  IN IF t = << >> THEN <<Blank>> ELSE t

\* YAML.parse of the lines of a header made of keys with values, of empty
\* lines, of one line of text, or holding a line that is not YAML; a key
\* given twice is an error
yamlParse(header) ==
  LET entries == SelectSeq(header, LAMBDA l : l.t = "entry")
      texts == SelectSeq(header, LAMBDA l : l.t = "text")
  IN CASE \E i \in 1..Len(header) : header[i].t = "broken"
            -> [throws |-> TRUE]
       [] \E i, j \in 1..Len(entries) :
            i # j /\ entries[i].key = entries[j].key
            -> [throws |-> TRUE]
       [] entries = << >> /\ texts = << >>
            -> [throws |-> FALSE, value |-> YNull]
       [] entries = << >> /\ Len(texts) = 1
            -> [throws |-> FALSE, value |-> Str(texts[1].s)]
       [] entries # << >> /\ texts = << >>
            -> [throws |-> FALSE,
                value |-> YMap([key \in {entries[i].key : i \in 1..Len(entries)}
                                  |-> (CHOOSE e \in {entries[i] : i \in 1..Len(entries)} :
                                         e.key = key).val])]

\* obj.key and obj?.key
get(obj, key) ==
  IF obj.k = "map" /\ key \in DOMAIN obj.fields THEN obj.fields[key] ELSE YUndefined

\* String(v) throws a TypeError: v is an object whose own toString is not a
\* function (no YAML value is one), valueOf giving back the object
RECURSIVE stringThrows(_)
stringThrows(v) ==
  CASE v.k = "map" -> "toString" \in DOMAIN v.fields
    [] v.k = "seq" -> \E i \in 1..Len(v.items) :
                        v.items[i].k \in {"map", "seq"}
                          /\ stringThrows(v.items[i])
    [] OTHER -> FALSE

\* String(v)
RECURSIVE JsString(_)
JsString(v) ==
  CASE v.k = "str" -> v.s
    [] v.k = "null" -> "null"
    [] v.k = "undefined" -> "undefined"
    [] v.k = "map" -> "[object Object]"
    [] v.k = "seq" ->
         LET RECURSIVE join(_)
             join(i) ==
               IF i > Len(v.items) THEN ""
               ELSE (IF v.items[i].k \in {"null", "undefined"} THEN ""
                     ELSE JsString(v.items[i]))
                      \o (IF i < Len(v.items) THEN "," ELSE "")
                      \o join(i + 1)
         IN join(1)

\* stringVal(v): string | undefined
stringVal(v) ==
  IF v.k \in {"null", "undefined"} THEN Undefined ELSE JsString(v)

stringValThrows(v) == v.k \notin {"null", "undefined"} /\ stringThrows(v)

\* asStringArray(v): string[] | undefined
asStringArray(v) ==
  IF v.k # "seq" THEN [present |-> FALSE]
  ELSE [present |-> TRUE,
        v |-> [i \in 1..Len(v.items) |-> JsString(v.items[i])]]

asStringArrayThrows(v) ==
  v.k = "seq" /\ \E i \in 1..Len(v.items) : stringThrows(v.items[i])

\* a || b on string | undefined
Or(a, b) == IF Truthy(a) THEN a ELSE b

\* a property of a metadata object, left out when its value is undefined
optional(key, val) == IF val = Undefined THEN << >> ELSE key :> val

\* the metadata of a content without frontmatter
Fallback == [name |-> "untitled", description |-> ""]

\* the metadata object parseFrontmatter builds from the parsed header
resolve(raw) ==
  LET nested == get(raw, "metadata")
      top == asStringArray(get(raw, "tags"))
      low == asStringArray(get(nested, "tags"))
      tags == IF top.present THEN top ELSE low
  IN ("name" :> Or(stringVal(get(raw, "name")), "untitled"))
       @@ ("description" :> Or(stringVal(get(raw, "description")), ""))
       @@ optional("license", stringVal(get(raw, "license")))
       @@ optional("compatibility", stringVal(get(raw, "compatibility")))
       @@ optional("author", Or(stringVal(get(nested, "author")),
                                stringVal(get(raw, "author"))))
       @@ optional("version", Or(stringVal(get(nested, "version")),
                                 stringVal(get(raw, "version"))))
       @@ (IF tags.present THEN "tags" :> tags.v ELSE << >>)
       @@ optional("generatedBy", stringVal(get(nested, "generatedBy")))

\* one of the String(v) calls made while the metadata object is built
\* throws; a || b does not evaluate b when a is truthy
resolveThrows(raw) ==
  LET nested == get(raw, "metadata")
      second(key) == /\ ~stringValThrows(get(nested, key))
                     /\ ~Truthy(stringVal(get(nested, key)))
                     /\ stringValThrows(get(raw, key))
  IN \/ \E key \in {"name", "description", "license", "compatibility"} :
          stringValThrows(get(raw, key))
     \/ \E key \in {"author", "version", "generatedBy"} :
          stringValThrows(get(nested, key))
     \/ second("author")
     \/ second("version")
     \/ asStringArrayThrows(get(raw, "tags"))
     \/ /\ get(raw, "tags").k # "seq"
        /\ asStringArrayThrows(get(nested, "tags"))

\* /^---\s*\n([\s\S]*?)\n---\s*\n([\s\S]*)$/ : the lines that can close the
\* header, at least one line after the opening one and not the last line
closing(lines) == {j \in 3..(Len(lines) - 1) : lines[j].t = "fence"}

\* parseFrontmatter on the lines of a content
parseFrontmatterLines(lines) ==
  IF lines = << >> \/ lines[1].t # "fence" \/ closing(lines) = {}
  THEN [outcome |-> "ok", matched |-> FALSE, metadata |-> Fallback,
        body |-> lines]
  ELSE LET j == CHOOSE j \in closing(lines) :
                  \A i \in closing(lines) : j <= i
           filled == {i \in (j + 1)..Len(lines) : lines[i].t # "blank"}
           first == IF filled = {} THEN Len(lines)
                    ELSE CHOOSE i \in filled : \A h \in filled : i <= h
           parsed == yamlParse(SubSeq(lines, 2, j - 1))
           raw == IF parsed.value.k = "null" THEN YMap(<< >>)
                  ELSE parsed.value
       IN IF parsed.throws
          THEN [outcome |-> "ok", matched |-> FALSE, metadata |-> Fallback,
                body |-> lines]
          ELSE IF resolveThrows(raw)
          THEN [outcome |-> "throws", matched |-> TRUE, metadata |-> << >>,
                body |-> << >>]
          ELSE [outcome |-> "ok", matched |-> TRUE, metadata |-> resolve(raw),
                body |-> SubSeq(lines, first, Len(lines))]

\* metadata.key, undefined when the object has no such property
field(metadata, key) ==
  IF key \in DOMAIN metadata THEN metadata[key] ELSE Undefined

\* the keys YAML.stringify writes for doc
docEntries(metadata) ==
  LET author == field(metadata, "author")
      version == field(metadata, "version")
      generatedBy == field(metadata, "generatedBy")
      nested == (IF Truthy(author) THEN "author" :> Str(author) ELSE << >>)
                  @@ (IF Truthy(version) THEN "version" :> Str(version)
                      ELSE << >>)
                  @@ (IF Truthy(generatedBy)
                      THEN "generatedBy" :> Str(generatedBy) ELSE << >>)
  IN <<Entry("name", Str(metadata.name)),
       Entry("description", Str(metadata.description))>>
       \o (IF Truthy(field(metadata, "license"))
           THEN <<Entry("license", Str(metadata.license))>> ELSE << >>)
       \o (IF Truthy(field(metadata, "compatibility"))
           THEN <<Entry("compatibility", Str(metadata.compatibility))>>
           ELSE << >>)
       \o (IF "tags" \in DOMAIN metadata /\ Len(metadata.tags) > 0
           THEN <<Entry("tags", YSeq([i \in 1..Len(metadata.tags) |->
                                        Str(metadata.tags[i])]))>>
           ELSE << >>)
       \o (IF DOMAIN nested # {} THEN <<Entry("metadata", YMap(nested))>>
           ELSE << >>)

\* a serializer that writes the body as it is
serializeSkillLines_untrimmed(metadata, body) ==
  <<Fence>> \o docEntries(metadata) \o <<Fence, Blank>>
    \o body \o <<Blank>>

\* serializeSkill: `---\n${yamlStr}\n---\n\n${body.trim()}\n`
serializeSkillLines(metadata, body) ==
  <<Fence>> \o docEntries(metadata) \o <<Fence, Blank>>
    \o trimLines(body) \o <<Blank>>

\* the headers parsed here, key by key; YUndefined leaves the key out.
\* The first set varies the required scalars, the second the fields that
\* the nested block can carry too.
HeaderChoices ==
  [name : {YUndefined, Str("Test"), YNull, YMap("toString" :> Str("x"))},
   description : {YUndefined, Str("d"), YNull, YMap("a" :> Str("b"))},
   author : {YUndefined}, tags : {YUndefined}, metadata : {YUndefined},
   version : {YUndefined}, generatedBy : {YUndefined},
   custom : {YUndefined, Str("y")}]
  \cup
  [name : {Str("Test")}, description : {Str("d")},
   author : {YUndefined, Str("top")},
   tags : {YUndefined, YSeq(<<Str("top")>>), Str("a, b")},
   metadata : {YUndefined,
               YMap(("author" :> Str("nested")) @@ ("version" :> Str("2"))
                      @@ ("tags" :> YSeq(<<Str("nested")>>))
                      @@ ("generatedBy" :> Str("tool"))),
               YMap("author" :> Str("")),
               Str("legacy")},
   version : {YUndefined, Str("1")},
   generatedBy : {YUndefined, Str("topTool")},
   custom : {YUndefined}]

HeaderKeys ==
  <<"name", "description", "author", "version", "tags", "generatedBy",
    "custom", "metadata">>

RECURSIVE headerOf(_, _)
headerOf(choice, i) ==
  IF i > Len(HeaderKeys) THEN << >>
  ELSE (IF choice[HeaderKeys[i]].k = "undefined" THEN << >>
        ELSE <<Entry(HeaderKeys[i], choice[HeaderKeys[i]])>>)
         \o headerOf(choice, i + 1)

\* the contents handed to parseFrontmatter
Contents ==
  { <<Text("# Just some markdown"), Blank, Text("No frontmatter here.")>>,
    <<Fence, Text("name: open")>>,
    <<Fence, Fence, Text("b"), Blank>>,
    <<Fence, Entry("name", Str("Test")), Fence>>,
    <<Fence, Broken, Fence, Blank, Text("b"), Blank>>,
    <<Fence, Blank, Fence, Text("b")>>,
    <<Fence, Text("just text"), Fence, Blank, Blank>>,
    <<Fence, Entry("name", Str("a")), Entry("name", Str("b")), Fence, Blank>> }
    \cup { <<Fence>> \o headerOf(choice, 1)
             \o <<Fence, Blank, Text("Body here"), Blank>> :
           choice \in {c \in HeaderChoices :
                         \E key \in DOMAIN c : c[key].k # "undefined"} }

\* the metadata objects and bodies handed to serializeSkill
MetadataInputs ==
  { ("name" :> n) @@ ("description" :> "Test roundtrip")
      @@ optional("license", l) @@ optional("author", w[1])
      @@ optional("version", v) @@ optional("generatedBy", w[2])
      @@ (IF t.present THEN "tags" :> t.v ELSE << >>) :
    n \in {"", "Roundtrip"}, l \in {Undefined, "", "MIT"},
    v \in {Undefined, "", "1.0"},
    w \in {<<Undefined, Undefined>>, <<"tester", "tool">>},
    t \in {[present |-> FALSE], [present |-> TRUE, v |-> << >>],
           [present |-> TRUE, v |-> <<"a", "b">>]} }

BodyInputs ==
  { <<Blank>>,
    <<Blank, Text("# Hello"), Blank, Text("World"), Blank, Blank>>,
    <<Text("rule"), Fence, Text("after")>> }

\* parseFrontmatter(content)
parseContent(content) ==
  LET r == parseFrontmatterLines(content)
  IN /\ lastOp' = [op |-> "parseFrontmatter", content |-> content,
                   outcome |-> r.outcome, matched |-> r.matched,
                   metadata |-> r.metadata, body |-> r.body]
     /\ UNCHANGED <<library, stats, recorded, cache, now, others>>

\* parseFrontmatter(serializeSkill(metadata, body))
roundTrip(metadata, body) ==
  LET r == parseFrontmatterLines(serializeSkillLines(metadata, body))
  IN /\ lastOp' = [op |-> "roundTrip", metadata |-> metadata, body |-> body,
                   outcome |-> r.outcome, parsed |-> r.metadata,
                   parsedBody |-> r.body]
     /\ UNCHANGED <<library, stats, recorded, cache, now, others>>

\* ------------------------------------------------------------------------
\* Storage Engine: a recordInstall call, await by await

\* a caller that has not called recordInstall
NoInstall == [phase |-> "Idle"]

\* recordInstall(id, version) is called: _readStats is awaited
beginRecordInstall(c, id, version) ==
  /\ installs[c].phase = "Idle"
  /\ installs' = [installs EXCEPT ![c] =
                    [phase |-> "Reading", id |-> id, version |-> version]]
  /\ recorded' = bump(recorded, id)
  /\ lastOp' = [op |-> "beginRecordInstall", call |-> c, id |-> id,
                version |-> version]
  /\ UNCHANGED <<library, stats, cache, now, fetches, config, libraryPath,
                 shelf, repo, marketplaceSources, creates, importing, overtaken, http, panels>>

\* _readStats settles: the entry of the id is set in the object that was
\* read, and _writeStats is awaited with that object
readStatsStep(c) ==
  /\ installs[c].phase = "Reading"
  /\ installs' = [installs EXCEPT ![c] =
                    [phase |-> "Writing", id |-> installs[c].id,
                     version |-> installs[c].version,
                     stats |-> statsAfterInstall(stats, installs[c].id,
                                                 installs[c].version, now)]]
  /\ lastOp' = [op |-> "readStatsStep", call |-> c, id |-> installs[c].id]
  /\ UNCHANGED <<library, stats, recorded, cache, now, fetches, config,
                 libraryPath, shelf, repo, marketplaceSources, creates, importing, overtaken, http, panels>>

\* _writeStats settles: .stats.json holds the object of this call
writeStatsStep(c) ==
  /\ installs[c].phase = "Writing"
  /\ stats' = installs[c].stats
  /\ installs' = [installs EXCEPT ![c] =
                    [phase |-> "Done", id |-> installs[c].id,
                     version |-> installs[c].version]]
  /\ lastOp' = [op |-> "writeStatsStep", call |-> c, id |-> installs[c].id]
  /\ UNCHANGED <<library, recorded, cache, now, fetches, config,
                 libraryPath, shelf, repo, marketplaceSources, creates, importing, overtaken, http, panels>>

\* ------------------------------------------------------------------------
\* Storage Engine: an importFromPath call, await by await

\* a caller that has not called importFromPath
NoImport == [phase |-> "Idle"]

\* importFromPath(skillDir) up to the answer of pathExists(skillFile)
beginImport(c, skillDir) ==
  /\ importing[c].phase = "Idle"
  /\ importing' = [importing EXCEPT ![c] =
                   [phase |-> IF SkillMd \in DOMAIN ExternalFiles(skillDir)
                              THEN "Probing" ELSE "Failed",
                    from |-> skillDir, targetId |-> basename(skillDir),
                    counter |-> 1]]
  /\ lastOp' = [op |-> "beginImport", call |-> c, from |-> skillDir]
  /\ UNCHANGED <<library, stats, recorded, cache, now, fetches, config,
                 libraryPath, shelf, repo, marketplaceSources, creates,
                 installs, overtaken, http, panels>>

\* one pathExists of the collision loop settles: a taken id gives the next
\* candidate, a free one ends the loop
probeStep(c) ==
  /\ importing[c].phase = "Probing"
  /\ importing[c].counter <= MaxSuffix
  /\ importing' = [importing EXCEPT ![c] =
                   IF dirExists(library, importing[c].targetId)
                   THEN [phase |-> "Probing", from |-> importing[c].from,
                         targetId |-> Suffixed(basename(importing[c].from),
                                               importing[c].counter),
                         counter |-> importing[c].counter + 1]
                   ELSE [phase |-> "Chosen", from |-> importing[c].from,
                         targetId |-> importing[c].targetId,
                         counter |-> importing[c].counter]]
  /\ lastOp' = [op |-> "probeStep", call |-> c,
                taken |-> dirExists(library, importing[c].targetId)]
  /\ UNCHANGED <<library, stats, recorded, cache, now, fetches, config,
                 libraryPath, shelf, repo, marketplaceSources, creates,
                 installs, overtaken, http, panels>>

\* copyDirectory: ensureDirectory(dest) settles
importMkdirStep(c) ==
  /\ importing[c].phase = "Chosen"
  /\ library' = copyDirectory(library, << >>, importing[c].targetId)
  /\ importing' = [importing EXCEPT ![c].phase = "Made"]
  /\ lastOp' = [op |-> "importMkdirStep", call |-> c,
                id |-> importing[c].targetId]
  /\ UNCHANGED <<stats, recorded, cache, now, fetches, config,
                 libraryPath, shelf, repo, marketplaceSources, creates,
                 installs, overtaken, http, panels>>

\* copyDirectory: the entries of the source are copied
importCopyStep(c) ==
  /\ importing[c].phase = "Made"
  /\ library' = copyDirectory(library, ExternalFiles(importing[c].from),
                              importing[c].targetId)
  /\ importing' = [importing EXCEPT ![c].phase = "Copied"]
  /\ lastOp' = [op |-> "importCopyStep", call |-> c,
                id |-> importing[c].targetId]
  /\ UNCHANGED <<stats, recorded, cache, now, fetches, config,
                 libraryPath, shelf, repo, marketplaceSources, creates,
                 installs, overtaken, http, panels>>

\* this._onDidChange.fire(), readSkill(targetId), return
importReturnStep(c) ==
  /\ importing[c].phase = "Copied"
  /\ importing' = [importing EXCEPT ![c].phase =
                   IF skillFileExists(library, importing[c].targetId)
                   THEN "Done" ELSE "Failed"]
  /\ lastOp' = [op |-> "importReturnStep", call |-> c,
                id |-> importing[c].targetId]
  /\ UNCHANGED <<library, stats, recorded, cache, now, fetches, config,
                 libraryPath, shelf, repo, marketplaceSources, creates,
                 installs, overtaken, http, panels>>

\* ------------------------------------------------------------------------
\* Marketplace Client: HTTP helpers

\* the message of the rate-limit error
RateLimitMessage ==
  "GitHub API rate limit exceeded. Run \"Set GitHub Token\" command to set a personal access token and increase the limit."

\* the lines of the x-ratelimit-remaining header a server sends
RemainingSent == { << >>, <<"0">>, <<"59">>, <<"0", "0">> }

\* res.headers[name]: absent without a line, the lines joined by ", "
RECURSIVE joinHeader(_)
joinHeader(values) ==
  IF Len(values) = 1 THEN Head(values)
  ELSE Head(values) \o ", " \o joinHeader(Tail(values))

incomingHeader(values) ==
  IF values = << >> THEN Undefined ELSE joinHeader(values)

\* the longest chain of redirects a request follows in the model
MaxRedirects == 1

\* what a request meets: no response at all, or a response with its status
\* code, rate-limit header lines, location header and body
Bodies == {"{}", "<html>"}

Responses ==
  [arrives : {TRUE}, statusCode : {200, 400, 403, 404, 429, 500},
   remaining : RemainingSent, location : {Undefined}, body : Bodies]
  \cup [arrives : {TRUE}, statusCode : {302},
        remaining : {<< >>, <<"0">>}, location : {Undefined}, body : Bodies]
  \cup [arrives : {FALSE}, statusCode : {0}, remaining : {<< >>},
        location : {Undefined}, body : {"{}"}]

Redirects ==
  [arrives : {TRUE}, statusCode : {301, 302}, remaining : {<< >>, <<"0">>},
   location : {"moved"}, body : {"<html>"}]

\* the responses to a request and to the requests it makes for the
\* locations it is sent to
RECURSIVE ChainsOf(_)
ChainsOf(n) ==
  IF n = 0 THEN { <<a>> : a \in Responses }
  ELSE ChainsOf(n - 1)
       \cup { <<r>> \o c : r \in Redirects, c \in ChainsOf(n - 1) }

Chains == ChainsOf(MaxRedirects)

\* _httpError
httpError_generic(statusCode, url, rateLimitRemaining) ==
  [template |-> "HTTP {statusCode} for {url}",
   statusCode |-> statusCode, url |-> url]

httpError(statusCode, url, rateLimitRemaining) ==
  IF statusCode = 403 /\ rateLimitRemaining = "0"
  THEN [template |-> RateLimitMessage]
  ELSE [template |-> "HTTP {statusCode} for {url}",
        statusCode |-> statusCode, url |-> url]

\* JSON.parse of a body
jsonParses(body) == body = "{}"

\* one HTTPS GET with the requests that follow its redirects; json says
\* whether the body is parsed
RECURSIVE httpGet(_, _, _, _)
httpGet(json, url, chain, hops) ==
  LET res == Head(chain)
      seen == [url |-> url, hops |-> hops, arrived |-> res.arrives,
               statusCode |-> res.statusCode, remaining |-> res.remaining]
  IN IF ~ res.arrives
     THEN seen @@ [outcome |-> "rejected",
                   error |-> [template |-> "ECONNREFUSED"]]
     ELSE IF /\ res.statusCode >= 300
             /\ res.statusCode < 400
             /\ res.location # Undefined
     THEN httpGet(json, res.location, Tail(chain), hops + 1)
     ELSE IF res.statusCode >= 400
     THEN seen @@ [outcome |-> "rejected",
                   error |-> httpError(res.statusCode, url,
                                       incomingHeader(res.remaining))]
     ELSE IF json /\ ~ jsonParses(res.body)
     THEN seen @@ [outcome |-> "rejected",
                   error |-> [template |-> "SyntaxError"]]
     ELSE seen @@ [outcome |-> "resolved", value |-> res.body]

\* _httpGetJson
httpGetJson(url, chain) ==
  /\ lastOp' = [op |-> "httpGetJson"] @@ httpGet(TRUE, url, chain, 0)
  /\ UNCHANGED <<library, stats, recorded, cache, now, others>>

\* _httpGetText
httpGetText(url, chain) ==
  /\ lastOp' = [op |-> "httpGetText"] @@ httpGet(FALSE, url, chain, 0)
  /\ UNCHANGED <<library, stats, recorded, cache, now, others>>

\* ------------------------------------------------------------------------
\* Marketplace Client: an HTTPS GET, response by response

\* URLs by their segments: the tree request, the document request, and
\* where a location header may point
ApiUrl == <<"https:", "", "api.github.com", "repos">>

RawUrl == <<"https:", "", "raw.githubusercontent.com", "org">>

MovedUrl == <<"https:", "", "api.github.com", "repositories">>

ElsewhereUrl == <<"https:", "", "example.org", "repos">>

\* the host of a URL
hostOf(url) == url[3]

\* what _resolveToken gives: no token, or the configured one
Tokens == {Undefined, "ghp_1"}

\* _getHeaders
getHeaders(accept, token) ==
  [userAgent |-> "SkillDock-VSCode", accept |-> accept,
   authorization |-> IF Truthy(token) THEN "token " \o token ELSE Undefined]

\* no _httpGetJson or _httpGetText call has been made
NoRequest == [phase |-> "Idle"]

\* the responses a request may get: status, location header (empty when
\* absent) and body
StepResponses ==
  [statusCode : {200, 301, 404}, location : {<< >>}, body : Bodies]
  \cup [statusCode : {301}, location : {ApiUrl, MovedUrl, ElsewhereUrl},
        body : {"<html>"}]

\* https.get(url, { headers: this._getHeaders(accept, token) }, ...)
httpsGet(json, url, token) ==
  [host |-> hostOf(url),
   headers |-> getHeaders(IF json THEN "application/json" ELSE Undefined, token)]

\* _httpGetJson(url, token) or _httpGetText(url, token) is called: the
\* request is sent
beginGet(json, url, token) ==
  /\ http.phase = "Idle"
  /\ http' = [phase |-> "Pending", json |-> json, url |-> url,
              token |-> token, sent |-> {httpsGet(json, url, token)}]
  /\ lastOp' = [op |-> "beginGet", json |-> json, url |-> url,
                token |-> token]
  /\ UNCHANGED <<library, stats, recorded, cache, now, fetches, config,
                 libraryPath, shelf, repo, marketplaceSources, creates,
                 installs, importing, overtaken, panels>>

\* the response callback of the pending request: a 3xx response with a
\* location makes the helper call itself for the location with the same
\* token, a status of 400 or more rejects, and a body that is read resolves
\* unless JSON.parse throws
respond(res) ==
  /\ http.phase = "Pending"
  /\ http' =
       IF res.statusCode >= 300 /\ res.statusCode < 400 /\ res.location # << >>
       THEN [http EXCEPT !.url = res.location,
                         !.sent = @ \cup {httpsGet(http.json, res.location,
                                                   http.token)}]
       ELSE IF res.statusCode >= 400
       THEN [http EXCEPT !.phase = "Rejected"]
       ELSE IF http.json /\ ~ jsonParses(res.body)
       THEN [http EXCEPT !.phase = "Rejected"]
       ELSE [http EXCEPT !.phase = "Resolved"]
  /\ lastOp' = [op |-> "respond", url |-> http.url, res |-> res]
  /\ UNCHANGED <<library, stats, recorded, cache, now, fetches, config,
                 libraryPath, shelf, repo, marketplaceSources, creates,
                 installs, importing, overtaken, panels>>

\* req.on('error', reject)
requestError ==
  /\ http.phase = "Pending"
  /\ http' = [http EXCEPT !.phase = "Rejected"]
  /\ lastOp' = [op |-> "requestError", url |-> http.url]
  /\ UNCHANGED <<library, stats, recorded, cache, now, fetches, config,
                 libraryPath, shelf, repo, marketplaceSources, creates,
                 installs, importing, overtaken, panels>>

\* ------------------------------------------------------------------------
\* Webview panels: the Skill Editor panels and the Manager panel

\* the panel objects that can be constructed
PanelIds == {"p1", "p2", "p3"}

\* the keys an editor panel is registered under: skill?.id || '__new__'
EditorKeys == {"a", "__new__"}

\* how many times dispose() is called on one panel object
MaxCalls == 2

\* no panel has been opened: SkillEditorPanel.currentPanels is empty and
\* ManagerPanel.currentPanel is undefined
NoPanels == [wrappers |-> << >>, currentPanels |-> << >>, currentPanel |-> << >>]

\* new SkillEditorPanel(panel, skill, ...): the constructor subscribes
\* () => this.dispose() to the panel's onDidDispose
newEditorPanel(key) ==
  [kind |-> "editor", key |-> key, closed |-> FALSE, listening |-> TRUE,
   calls |-> 0, panelDisposals |-> 0]

\* new ManagerPanel(panel, ...)
newManagerPanel ==
  [kind |-> "manager", disposed |-> FALSE, closed |-> FALSE,
   listening |-> TRUE, calls |-> 0, panelDisposals |-> 0]

RECURSIVE disposeOn(_, _)
RECURSIVE panelDispose(_, _)

\* this._panel.dispose(): the first call closes the webview panel and fires
\* onDidDispose, whose listener calls dispose() of the panel object; a call
\* on a closed panel does nothing
panelDispose(s, p) ==
  IF s.wrappers[p].closed THEN s
  ELSE LET closedNow == [s EXCEPT !.wrappers[p].closed = TRUE]
       IN IF s.wrappers[p].listening THEN disposeOn(closedNow, p)
          ELSE closedNow

\* SkillEditorPanel.dispose() and ManagerPanel.dispose(); panelDisposals
\* counts the calls of this._panel.dispose() they make
disposeOn(s, p) ==
  LET w == s.wrappers[p]
      unregistered ==
        IF w.kind = "manager" THEN
          [s EXCEPT !.wrappers[p].disposed = TRUE, !.currentPanel = << >>]
        ELSE
          [s EXCEPT !.currentPanels =
             [k \in DOMAIN s.currentPanels \ {w.key} |-> s.currentPanels[k]]]
      called == [unregistered EXCEPT !.wrappers[p].panelDisposals = @ + 1]
      returned == panelDispose(called, p)
  IN IF w.kind = "manager" /\ w.disposed THEN s
     ELSE [returned EXCEPT !.wrappers[p].listening = FALSE]

\* SkillEditorPanel.createOrShow(extensionUri, storageService, skill, ...)
createOrShowEditor(key) ==
  /\ \E p \in PanelIds : p \notin DOMAIN panels.wrappers
  /\ LET p == CHOOSE q \in PanelIds : q \notin DOMAIN panels.wrappers
         has == key \in DOMAIN panels.currentPanels
     IN /\ panels' =
             IF has THEN panels
             ELSE [panels EXCEPT
                     !.wrappers = [q \in DOMAIN panels.wrappers \cup {p} |->
                                     IF q = p THEN newEditorPanel(key)
                                     ELSE panels.wrappers[q]],
                     !.currentPanels =
                        [k \in DOMAIN panels.currentPanels \cup {key} |->
                           IF k = key THEN p ELSE panels.currentPanels[k]]]
        /\ lastOp' = [op |-> "createOrShowEditor", key |-> key,
                      outcome |-> IF has THEN "revealed" ELSE "created"]
  /\ UNCHANGED <<library, stats, recorded, cache, now, fetches, config,
                 libraryPath, shelf, repo, marketplaceSources, creates,
                 installs, importing, overtaken, http>>

\* ManagerPanel.createOrShow(extensionUri, storageService, ...)
createOrShowManager ==
  /\ \E p \in PanelIds : p \notin DOMAIN panels.wrappers
  /\ LET p == CHOOSE q \in PanelIds : q \notin DOMAIN panels.wrappers
         has == panels.currentPanel # << >>
     IN /\ panels' =
             IF has THEN panels
             ELSE [panels EXCEPT
                     !.wrappers = [q \in DOMAIN panels.wrappers \cup {p} |->
                                     IF q = p THEN newManagerPanel
                                     ELSE panels.wrappers[q]],
                     !.currentPanel = <<p>>]
        /\ lastOp' = [op |-> "createOrShowManager",
                      outcome |-> IF has THEN "revealed" ELSE "created"]
  /\ UNCHANGED <<library, stats, recorded, cache, now, fetches, config,
                 libraryPath, shelf, repo, marketplaceSources, creates,
                 installs, importing, overtaken, http>>

\* dispose() is called on a panel object
dispose(p) ==
  /\ p \in DOMAIN panels.wrappers
  /\ panels.wrappers[p].calls < MaxCalls
  /\ panels' = [disposeOn(panels, p) EXCEPT !.wrappers[p].calls = @ + 1]
  /\ lastOp' = [op |-> "dispose", panel |-> p]
  /\ UNCHANGED <<library, stats, recorded, cache, now, fetches, config,
                 libraryPath, shelf, repo, marketplaceSources, creates,
                 installs, importing, overtaken, http>>

\* the webview sends 'cancel' to an editor panel: this._panel.dispose()
cancelMessage(p) ==
  /\ p \in DOMAIN panels.wrappers
  /\ panels.wrappers[p].kind = "editor"
  /\ ~ panels.wrappers[p].closed
  /\ panels' = panelDispose(panels, p)
  /\ lastOp' = [op |-> "cancel", panel |-> p]
  /\ UNCHANGED <<library, stats, recorded, cache, now, fetches, config,
                 libraryPath, shelf, repo, marketplaceSources, creates,
                 installs, importing, overtaken, http>>

\* the user closes the tab of a panel: the webview panel closes and fires
\* onDidDispose
closePanel(p) ==
  /\ p \in DOMAIN panels.wrappers
  /\ ~ panels.wrappers[p].closed
  /\ panels' = panelDispose(panels, p)
  /\ lastOp' = [op |-> "closePanel", panel |-> p]
  /\ UNCHANGED <<library, stats, recorded, cache, now, fetches, config,
                 libraryPath, shelf, repo, marketplaceSources, creates,
                 installs, importing, overtaken, http>>

\* ------------------------------------------------------------------------
\* Entry points that validate an id before a skill is created

\* characters of the class [a-z0-9] that the id inputs use
AlNum == {"a", "1"}

\* String(chars): the text whose characters are the given sequence
RECURSIVE idText(_)
idText(chars) ==
  IF chars = << >> THEN "" ELSE Head(chars) \o idText(Tail(chars))

\* /^[a-z0-9][a-z0-9-]*[a-z0-9]$/.test(id)
editorPattern(id) ==
  /\ Len(id) >= 2
  /\ id[1] \in AlNum
  /\ id[Len(id)] \in AlNum
  /\ \A k \in 1..Len(id) : id[k] \in AlNum \cup {"-"}

\* /^[a-z0-9][a-z0-9-]*$/.test(value)
promptPattern(value) ==
  /\ Len(value) >= 1
  /\ value[1] \in AlNum
  /\ \A k \in 1..Len(value) : value[k] \in AlNum \cup {"-"}

\* validate() of the editor's form: the format test is skipped for an id of
\* one character
validate(idField, nameField) ==
  LET id == trim(idField)
      name == trim(nameField)
  IN /\ id # << >>
     /\ ~ (~ editorPattern(id) /\ Len(id) > 1)
     /\ name # << >>

\* validateInput of the duplicate command's input box (TRUE: no message)
validateInput(value) ==
  /\ trim(value) # << >>
  /\ promptPattern(value)

\* what is typed into an id field
IdFields ==
  { << >>, <<"a">>, <<"-">>, <<"A">>, <<"a", "-">>, <<"-", "a">>,
    <<"a", "-", "1">>, <<" ", "a", " ">> }

\* what is typed into the name field
NameFields == { << >>, <<" ">>, <<"N">> }

\* save() of the editor's form for a new skill, with _handleSave: the form
\* posts the trimmed fields when validate() passes, and the panel creates
\* the skill
editorSave(idField, nameField, body) ==
  LET id == trim(idField)
      metadata == [name |-> idText(trim(nameField)), description |-> "",
                   version |-> Undefined]
      r == createSkillOn(library, idText(id), metadata, body)
  IN IF ~ validate(idField, nameField)
     THEN /\ lastOp' = [op |-> "editorSave", chars |-> id,
                        named |-> trim(nameField) # << >>,
                        accepted |-> FALSE, outcome |-> "rejected",
                        fired |-> FALSE]
          /\ UNCHANGED <<library, stats, recorded, cache, now, others>>
     ELSE /\ library' = r.lib
          /\ lastOp' = [op |-> "editorSave", chars |-> id,
                        named |-> TRUE,
                        accepted |-> TRUE, outcome |-> r.outcome,
                        fired |-> r.outcome = "ok"]
          /\ UNCHANGED <<stats, recorded, cache, now, others>>

\* command skilldock.duplicateSkill on a skill of the library: the input box
\* returns the value only when validateInput has no message, and the command
\* duplicates the skill under that value
duplicateCommand(sourceId, value) ==
  IF ~ validateInput(value)
  THEN /\ lastOp' = [op |-> "duplicateCommand", chars |-> value,
                     from |-> sourceId, accepted |-> FALSE,
                     outcome |-> "rejected", fired |-> FALSE]
       /\ UNCHANGED <<library, stats, recorded, cache, now, others>>
  ELSE IF readSkill(library, sourceId) = Null
  THEN /\ lastOp' = [op |-> "duplicateCommand", chars |-> value,
                     from |-> sourceId, accepted |-> TRUE,
                     outcome |-> "NotFound", fired |-> FALSE]
       /\ UNCHANGED <<library, stats, recorded, cache, now, others>>
  ELSE /\ library' = copyDirectory(library, library[sourceId], idText(value))
       /\ lastOp' = [op |-> "duplicateCommand", chars |-> value,
                     from |-> sourceId, accepted |-> TRUE,
                     outcome |-> "ok", fired |-> TRUE]
       /\ UNCHANGED <<stats, recorded, cache, now, others>>

\* ------------------------------------------------------------------------
\* Specification of the Storage Engine
\* ------------------------------------------------------------------------

Init ==
  /\ library = << >>
  /\ stats = << >>
  /\ recorded = [id \in LibIds \cup RemoteIds |-> 0]
  /\ cache = << >>
  /\ now = 0
  /\ lastOp = [op |-> "init"]
  /\ fetches = [c \in Callers |-> NoFetch]
  /\ config = << >>
  /\ libraryPath = resolveLibraryPath(<< >>)
  /\ shelf = [r \in Roots \ {resolveLibraryPath(<< >>)} |-> EmptyRoot]
  /\ repo = << >>
  /\ marketplaceSources = << >>
  /\ creates = [c \in Callers |-> NoCreate]
  /\ installs = [c \in Callers |-> NoInstall]
  /\ importing = [c \in Callers |-> NoImport]
  /\ overtaken = {}
  /\ http = NoRequest
  /\ panels = NoPanels

Next ==
  \/ \E id \in LibIds, i \in SkillInputs : createSkill(id, i.metadata, i.body)
  \/ \E id \in LibIds, i \in SkillInputs : updateSkill(id, i.metadata, i.body)
  \/ \E id \in LibIds : deleteSkill(id)
  \/ \E sourceId \in LibIds, newId \in LibIds : duplicateSkill(sourceId, newId)
  \/ \E skillDir \in ExternalPaths : importFromPath(skillDir)
  \/ \E id \in LedgerIds, version \in Versions \cup {Undefined} : recordInstall(id, version)

Spec == Init /\ [][Next]_vars

\* ------------------------------------------------------------------------
\* Properties of the Storage Engine (under Spec)
\* ------------------------------------------------------------------------

\* C1: createSkill(id, ...) called when the library already has a directory
\* for id fails with AlreadyExists and leaves the library (that directory's
\* document and every other directory) and the ledger unchanged, in every
\* state reached by create, update, delete, duplicate and import operations.
C1_CreateExistingFails ==
  [][(lastOp'.op = "createSkill" /\ dirExists(library, lastOp'.id))
       => /\ lastOp'.outcome = "AlreadyExists"
          /\ library' = library
          /\ stats' = stats]_vars

\* a createSkill has just failed on an existing id, next to another skill
C1_Witness ==
  /\ lastOp.op = "createSkill"
  /\ lastOp.outcome = "AlreadyExists"
  /\ skillFileExists(library, lastOp.id)
  /\ Cardinality(DOMAIN library) >= 2

\* C2: importFromPath(dir) with base name b stores the copy under b when no
\* library entry b exists, otherwise under b-k for the smallest k >= 1 such
\* that b-k does not exist; the target did not exist before the call and
\* every directory that did is left as it was.
C2_ImportProbe ==
  [][(lastOp'.op = "importFromPath" /\ lastOp'.outcome = "ok")
       => LET b == basename(lastOp'.from)
              t == lastOp'.id
          IN /\ ~dirExists(library, t)
             /\ IF ~dirExists(library, b)
                THEN t = b
                ELSE \E k \in 1..Cardinality(DOMAIN library) :
                       /\ t = Suffixed(b, k)
                       /\ \A j \in 1..(k - 1) : dirExists(library, Suffixed(b, j))
             /\ DOMAIN library' = DOMAIN library \cup {t}
             /\ library'[t] = ExternalFiles(lastOp'.from)
             /\ \A d \in DOMAIN library : library'[d] = library[d]]_vars

\* two directories both named widget were imported one after the other:
\* the library holds the first under widget and the second under widget-1
C2_Witness ==
  /\ lastOp.op = "importFromPath"
  /\ lastOp.outcome = "ok"
  /\ lastOp.id = Suffixed(BaseName, 1)
  /\ dirExists(library, BaseName)
  /\ library[BaseName] = ExternalFiles(<<"tmp", "a", BaseName>>)
  /\ library[lastOp.id] = ExternalFiles(<<"tmp", "b", BaseName>>)

\* C3: starting from an empty ledger, the installCount of an id equals the
\* number of recordInstall calls made for it, and no step of any Storage
\* Engine operation decreases the installCount of any id.
C3_InstallCount ==
  /\ [](\A id \in DOMAIN recorded : countOf(stats, id) = recorded[id])
  /\ [][\A id \in DOMAIN recorded : countOf(stats', id) >= countOf(stats, id)]_vars

\* a second recordInstall for the same id has just completed
C3_Witness ==
  /\ lastOp.op = "recordInstall"
  /\ recorded[lastOp.id] >= 2
  /\ stats[lastOp.id].installCount = recorded[lastOp.id]
  /\ DOMAIN library # {}

\* the installedVersion getInstalledVersions reports for id
recordedVersion(st, id) ==
  IF id \in DOMAIN getInstalledVersions(st)
  THEN getInstalledVersions(st)[id]
  ELSE Undefined

\* C4: recordInstall(id, version) replaces the recorded installedVersion
\* only when version is a non-empty string; when version is omitted or
\* empty, the previously recorded installedVersion is retained.
C4_VersionRetained ==
  [][lastOp'.op = "recordInstall"
       => recordedVersion(stats', lastOp'.id) =
            IF Truthy(lastOp'.version)
            THEN lastOp'.version
            ELSE recordedVersion(stats, lastOp'.id)]_vars


\* ------------------------------------------------------------------------
\* Specification of installing from the marketplace into the library
\* ------------------------------------------------------------------------

NextInstall ==
  \/ \E remote \in RemoteSkills, ans \in Answers : installSkill(remote, ans)
  \/ \E remote \in RemoteSkills : updateSkillSilently(remote)
  \/ \E id \in RemoteIds, i \in SkillInputs : createSkill(id, i.metadata, i.body)
  \/ \E id \in RemoteIds : deleteSkill(id)
  \/ \E id \in RemoteIds, version \in Versions \cup {Undefined} : recordInstall(id, version)

SpecInstall == Init /\ [][NextInstall]_vars

\* ------------------------------------------------------------------------
\* Properties of installing (under SpecInstall)
\* ------------------------------------------------------------------------

\* the call went on to write: the id was absent, or the overwrite confirmed
proceeded(lib, label) ==
  readSkill(lib, label.id) = Null \/ label.answer = "Overwrite"

\* C9: whenever installSkill(remote) proceeds (the id was absent, or the
\* overwrite was confirmed) and returns, the library holds remote.id with the
\* remote metadata and body (as the codec writes and reads them), and the
\* ledger records exactly one more install for remote.id, with the remote's
\* version when it has one.
C9_InstallWrites ==
  [][(/\ lastOp'.op = "installSkill"
      /\ proceeded(library, lastOp')
      /\ lastOp'.outcome \in {"ok", "declined"})
       => LET remote == lastOp'.remote
              held == readSkill(library', remote.id)
          IN /\ held # Null
             /\ library'[remote.id][SkillMd] =
                  serializeSkill(remote.metadata, remote.body)
             /\ held.metadata.name = remote.metadata.name
             /\ held.metadata.description = remote.metadata.description
             /\ IF Truthy(remote.metadata.version)
                THEN held.metadata.version = remote.metadata.version
                ELSE held.metadata.version = Undefined
             /\ trim(held.body) = trim(remote.body)
             /\ countOf(stats', remote.id) = countOf(stats, remote.id) + 1
             /\ stats'[remote.id].installedVersion =
                  IF remote.metadata.version # Undefined
                  THEN remote.metadata.version
                  ELSE IF remote.id \in DOMAIN stats
                       THEN stats[remote.id].installedVersion
                       ELSE Undefined
             /\ \A d \in DOMAIN stats \ {remote.id} :
                  d \in DOMAIN stats' /\ stats'[d] = stats[d]]_vars

\* an installSkill has just overwritten an existing skill after the user
\* confirmed, and the ledger counts a second install of it
C9_Witness ==
  /\ lastOp.op = "installSkill"
  /\ lastOp.outcome = "ok"
  /\ lastOp.answer = "Overwrite"
  /\ lastOp.remote.metadata.version = "1.0"
  /\ stats[lastOp.id].installCount = 2
  /\ stats[lastOp.id].installedVersion = "1.0"

\* C10: installSkill(remote) for an id that already exists in the library,
\* when the user declines the overwrite (Cancel, or the dialog dismissed),
\* changes neither the library nor the stats ledger.
C10_DeclineIsNoOp ==
  [][(/\ lastOp'.op = "installSkill"
      /\ readSkill(library, lastOp'.id) # Null
      /\ lastOp'.answer # "Overwrite")
       => /\ library' = library
          /\ stats' = stats
          /\ lastOp'.outcome = "declined"]_vars

\* the user has just cancelled the overwrite of a skill whose document
\* differs from the offered one
C10_Witness ==
  /\ lastOp.op = "installSkill"
  /\ lastOp.outcome = "declined"
  /\ lastOp.answer = "Cancel"
  /\ skillFileExists(library, lastOp.id)
  /\ library[lastOp.id][SkillMd] #
       serializeSkill(lastOp.remote.metadata, lastOp.remote.body)

\* ------------------------------------------------------------------------
\* Specification of fetching one source
\* ------------------------------------------------------------------------

\* the sources fetched one at a time: one at the root of its repository
\* with two documents, one under a path prefix
Sources == {getSources[1], getSources[3]}

NextFetch ==
  \/ \E source \in Sources, force \in BOOLEAN :
       \E net \in Nets(source) : fetchSource(source, force, net)
  \/ clearCache
  \/ Tick

SpecFetch == Init /\ [][NextFetch]_vars

\* ------------------------------------------------------------------------
\* Properties of fetching one source (under SpecFetch)
\* ------------------------------------------------------------------------

FiveMinutes == 5 * 60 * 1000

\* the cache holds an entry for id that is younger than five minutes
heldYoung(c, id, t) == id \in DOMAIN c /\ t - c[id].timestamp < FiveMinutes

\* the paths of the skills of a list
pathsOf(list) == {list[i].repoPath : i \in 1..Len(list)}

\* C5: fetchSource(source, force=false) called while the cache holds an
\* entry for source.id that is younger than five minutes returns that
\* entry's list, issues no network request and leaves the cache as it is.
C5_CacheHit ==
  [][(/\ lastOp'.op = "fetchSource"
      /\ ~lastOp'.force
      /\ heldYoung(cache, lastOp'.id, now))
       => /\ lastOp'.outcome = "ok"
          /\ lastOp'.value = cache[lastOp'.id].data
          /\ lastOp'.requests = 0
          /\ cache' = cache]_vars

\* a fetchSource has just been served, without a request, from an entry
\* that is one tick old
C5_Witness ==
  /\ lastOp.op = "fetchSource"
  /\ ~lastOp.force
  /\ lastOp.age = TickMs
  /\ lastOp.requests = 0
  /\ lastOp.value # << >>

\* C6: fetchSource(source, force=false) never returns a cached list whose
\* timestamp is five minutes old or older: with such an entry the call
\* requests the tree and, when it returns, returns the list of that walk,
\* which is then the cache entry, stamped with the current time.
C6_StaleRefetched ==
  [][(/\ lastOp'.op = "fetchSource"
      /\ ~lastOp'.force
      /\ lastOp'.id \in DOMAIN cache
      /\ now - cache[lastOp'.id].timestamp >= FiveMinutes)
       => (lastOp'.outcome = "ok"
             => /\ lastOp'.requests >= 1
                /\ pathsOf(lastOp'.value) = lastOp'.net.ok
                /\ cache'[lastOp'.id] =
                     [data |-> lastOp'.value, timestamp |-> now'])]_vars

\* a fetchSource has just replaced an entry exactly five minutes old by a
\* walk that found fewer skills than the entry held
C6_Witness ==
  /\ lastOp.op = "fetchSource"
  /\ ~lastOp.force
  /\ lastOp.age = FiveMinutes
  /\ lastOp.outcome = "ok"
  /\ lastOp.requests = 3
  /\ Len(lastOp.value) = 1

\* C7: once the tree listing has been fetched successfully, fetchSource
\* succeeds and returns exactly the skills whose document fetch succeeded,
\* whichever subset of the document fetches fails.
C7_DocumentFailuresIsolated ==
  [][(/\ lastOp'.op = "fetchSource"
      /\ lastOp'.force \/ ~heldYoung(cache, lastOp'.id, now)
      /\ lastOp'.net.fail = "none")
       => /\ lastOp'.outcome = "ok"
          /\ pathsOf(lastOp'.value) = lastOp'.net.ok
          /\ Len(lastOp'.value) = Cardinality(lastOp'.net.ok)]_vars

\* a fetchSource has just returned one skill of a source with two
\* documents, the other document request having failed
C7_Witness ==
  /\ lastOp.op = "fetchSource"
  /\ lastOp.outcome = "ok"
  /\ lastOp.requests = 3
  /\ lastOp.net.fail = "none"
  /\ Cardinality(lastOp.net.ok) = 1
  /\ Len(lastOp.value) = 1

\* ------------------------------------------------------------------------
\* Specification of fetching all sources
\* ------------------------------------------------------------------------

\* the network behaviours of one source during a fetchAll: the tree
\* request fails, or it succeeds and the document requests all succeed or
\* all fail
NetsOfAll(source) ==
  {net \in Nets(source) :
     \/ net.fail = "tree"
     \/ net.fail = "none" /\ net.ok \in {{}, DocPaths(source)}}

\* the network behaviours of one fetchAll: one per source
AllNets ==
  {nets \in [1..Len(getSources) ->
               UNION {NetsOfAll(getSources[i]) : i \in 1..Len(getSources)}] :
     \A i \in 1..Len(getSources) : nets[i] \in NetsOfAll(getSources[i])}

NextFetchAll ==
  \/ \E force \in BOOLEAN, nets \in AllNets : fetchAll(force, nets)
  \/ clearCache
  \/ Tick

SpecFetchAll == Init /\ [][NextFetchAll]_vars

\* the concatenation of the sequences of a sequence
RECURSIVE flatten(_)
flatten(seqs) == IF seqs = << >> THEN << >> ELSE Head(seqs) \o flatten(Tail(seqs))

\* the fetchSource of the i-th source succeeded: it was served from the
\* cache or its token and tree requests succeeded
succeeded(label, i) == label.nets[i].fail = "none"

\* C8: fetchAll never fails: it returns the concatenation, in source-list
\* order, of the results of exactly those sources whose fetchSource
\* succeeded (the list each of them leaves in the cache), and an empty
\* list when every source fails.
C8_FetchAllBestEffort ==
  [][lastOp'.op = "fetchAll"
       => /\ lastOp'.outcome = "ok"
          /\ lastOp'.value =
               flatten([i \in 1..Len(getSources) |->
                          IF succeeded(lastOp', i)
                          THEN cache'[getSources[i].id].data
                          ELSE << >>])
          /\ (\A i \in 1..Len(getSources) : ~succeeded(lastOp', i))
               => lastOp'.value = << >>]_vars

\* a fetchAll has just returned the skills of the first and the third
\* source, the second source having failed
C8_Witness ==
  /\ lastOp.op = "fetchAll"
  /\ lastOp.outcome = "ok"
  /\ lastOp.nets[1].fail = "none"
  /\ lastOp.nets[2].fail = "tree"
  /\ lastOp.nets[3].fail = "none"
  /\ Len(lastOp.value) = 3
  /\ lastOp.value[1].source = getSources[1].id
  /\ lastOp.value[3].source = getSources[3].id

\* every source of a fetchAll has just failed
C8_WitnessAllFail ==
  /\ lastOp.op = "fetchAll"
  /\ \A i \in 1..Len(getSources) : lastOp.nets[i].fail = "tree"
  /\ lastOp.value = << >>

\* ------------------------------------------------------------------------
\* Specification of fetchSource calls in progress together
\* ------------------------------------------------------------------------

NextFetchSteps ==
  \/ \E c \in Callers, source \in Sources, force \in BOOLEAN :
       beginFetch(c, source, force)
  \/ \E c \in Callers, fail \in TreeOutcomes : treeArrives(c, fail)
  \/ \E c \in Callers :
       \E ok \in SUBSET {fetches[c].paths[i] : i \in 1..Len(fetches[c].paths)} :
         documentsSettle(c, ok)
  \/ Tick

SpecFetchSteps == Init /\ [][NextFetchSteps]_vars

\* the fetchSource call of caller c leaves fetchSource by a rejection
failStep(c) ==
  /\ \/ \E fail \in TreeOutcomes : treeArrives(c, fail)
     \/ \E ok \in SUBSET {fetches[c].paths[i] :
                              i \in 1..Len(fetches[c].paths)} :
          documentsSettle(c, ok)
  /\ fetches'[c].phase = "Failed"

\* the phase of some call changes otherwise than along one of the edges
phasesFollow(edges) ==
  \A c \in Callers :
    fetches'[c].phase # fetches[c].phase
      => <<fetches[c].phase, fetches'[c].phase>> \in edges

\* C11 as claimed: each source fetch follows Idle -> Fetching-Tree ->
\* Fetching-Documents -> Cached, and Failed can be the next state of a fetch
\* in Fetching-Tree and of a fetch in Fetching-Documents.
C11_FailedFromBothFetchingStates ==
  /\ [][phasesFollow({<<"Idle", "FetchingTree">>,
                      <<"FetchingTree", "FetchingDocuments">>,
                      <<"FetchingDocuments", "Cached">>,
                      <<"FetchingTree", "Failed">>,
                      <<"FetchingDocuments", "Failed">>})]_vars
  /\ [](\A c \in Callers :
          fetches[c].phase \in {"FetchingTree", "FetchingDocuments"}
            => ENABLED failStep(c))

\* C11 as amended: each source fetch follows Idle -> Fetching-Tree ->
\* Fetching-Documents -> Cached; Failed can be the next state of a fetch in
\* Fetching-Tree, and of no fetch in Fetching-Documents, whose only next
\* state is Cached.
C11_FetchPhases ==
  /\ [][phasesFollow({<<"Idle", "FetchingTree">>,
                      <<"FetchingTree", "FetchingDocuments">>,
                      <<"FetchingDocuments", "Cached">>,
                      <<"FetchingTree", "Failed">>})]_vars
  /\ [](\A c \in Callers :
          /\ fetches[c].phase = "FetchingTree" => ENABLED failStep(c)
          /\ fetches[c].phase = "FetchingDocuments" => ~ENABLED failStep(c))

\* one call has failed at its tree request and the other has just been
\* cached although one of its two document requests was rejected
C11_Witness ==
  /\ lastOp.op = "documentsSettle"
  /\ lastOp.phase = "Cached"
  /\ Cardinality(lastOp.ok) = 1
  /\ Len(fetches[lastOp.call].paths) = 2
  /\ \E c \in Callers : fetches[c].phase = "Failed"

\* the operations of the Storage Engine that write the library or the ledger
MutatingOps ==
  {"createSkill", "updateSkill", "deleteSkill", "duplicateSkill",
   "importFromPath", "recordInstall"}

\* C12: every Storage Engine operation that mutates the library or the stats
\* ledger (createSkill, updateSkill, deleteSkill, duplicateSkill,
\* importFromPath and recordInstall) fires the "library changed" signal on
\* every successful call.
C12_MutationsFire ==
  [][(lastOp'.op \in MutatingOps /\ lastOp'.outcome = "ok")
       => lastOp'.fired]_vars

\* ------------------------------------------------------------------------
\* Specification of the Storage Engine under a changing library-path setting
\* ------------------------------------------------------------------------

NextRoots ==
  \/ \E customPath \in PathSettings : setLibraryPath(customPath)
  \/ listSkills
  \/ \E i \in SkillInputs : createSkill(BaseName, i.metadata, i.body)
  \/ deleteSkill(BaseName)
  \/ \E version \in Versions \cup {Undefined} : recordInstall(BaseName, version)

SpecRoots == Init /\ [][NextRoots]_vars

\* the operations of the Storage Engine the specifications take
StorageOps == MutatingOps \cup {"listSkills"}

\* C13: every public Storage Engine operation resolves the configured
\* library root at the start of the call: whatever the setting has been
\* changed to, the call works on the directory the setting resolves to.
C13_RootResolvedPerCall ==
  [][lastOp'.op \in StorageOps
       => libraryPath' = resolveLibraryPath(config)]_vars

\* ------------------------------------------------------------------------
\* Specification of the library and its ledger as listSkills shows them
\* ------------------------------------------------------------------------

NextLedger ==
  \/ \E id \in RemoteIds, i \in SkillInputs : createSkill(id, i.metadata, i.body)
  \/ \E id \in RemoteIds : deleteSkill(id)
  \/ \E id \in RemoteIds, version \in Versions \cup {Undefined} :
       recordInstall(id, version)
  \/ listSkills

SpecLedger == Init /\ [][NextLedger]_vars

\* C14: deleteSkill(id) never changes the stats ledger, the entry of id and
\* of every other id being the same before and after the call; so every
\* skill listSkills lists, re-created after a deletion or not, is listed
\* with the count of all the installs recorded under its id.
C14_DeleteKeepsLedger ==
  /\ [][lastOp'.op = "deleteSkill" => stats' = stats]_vars
  /\ [][lastOp'.op = "listSkills"
          => \A i \in 1..Len(lastOp'.value) :
               LET x == lastOp'.value[i]
               IN IF recorded[x.id] > 0
                  THEN "installCount" \in DOMAIN x
                       /\ x.installCount = recorded[x.id]
                  ELSE "installCount" \notin DOMAIN x]_vars

\* a skill with recorded installs has just been deleted while the ledger
\* also holds the entry of another skill
C14_Witness ==
  /\ lastOp.op = "deleteSkill"
  /\ lastOp.outcome = "ok"
  /\ lastOp.id \in DOMAIN stats
  /\ stats[lastOp.id].installCount = MaxInstalls
  /\ DOMAIN stats # {lastOp.id}

\* ------------------------------------------------------------------------
\* Specification of importing from the library into the workspace
\* ------------------------------------------------------------------------

\* the answers to the overwrite questions of one importMultipleToRepo
AnswerSeqs == [1..Cardinality(RemoteIds) -> {"Overwrite", "Cancel"}]

\* single skills are imported in either format, picked skills in the first
NextBridge ==
  \/ \E id \in RemoteIds, i \in SkillInputs : createSkill(id, i.metadata, i.body)
  \/ \E id \in RemoteIds : deleteSkill(id)
  \/ \E format \in Formats \cup {Undefined}, open \in BOOLEAN,
        answer \in Answers :
       importSkillCommand(BaseName, format, open, answer)
  \/ \E format \in Formats, open \in BOOLEAN, answer \in Answers :
       handleImport(BaseName, format, open, answer)
  \/ \E selected \in picksOf(listing(library, stats)),
        format \in {"claude", Undefined},
        open \in BOOLEAN, answers \in AnswerSeqs :
       interactiveImport(selected, format, open, answers)

SpecBridge == Init /\ [][NextBridge]_vars

\* C15: when importMultipleToRepo fails at the k-th skill, the destinations
\* of the k-1 skills already imported are returned to the caller or
\* reported to the user.
C15_PartialResultsReported ==
  [][(lastOp'.op = "interactiveImport" /\ lastOp'.outcome = "failed")
       => \/ lastOp'.returned = lastOp'.done
          \/ lastOp'.info = Len(lastOp'.done)]_vars

\* the steps that call importToRepo for one skill
SingleImports == {"importSkillCommand", "handleImport"}

\* the destination dest, which existed, is not as it was
touched(dest) == dest \notin DOMAIN repo' \/ repo'[dest] # repo[dest]

\* C16: importToRepo onto an existing destination asks for an overwrite
\* decision before touching it: an existing destination changes only after
\* the answer Overwrite; when the user declines, the destination is left
\* unchanged and the call ends with the Cancelled signal, for which no
\* caller shows an error dialog, while every other failure is shown.
C16_DeclineIsCancelled ==
  /\ [][(lastOp'.op \in SingleImports /\ lastOp'.outcome # "dismissed")
          => LET dest == targetDirOf(lastOp'.format, lastOp'.id)
             IN /\ (dest \in DOMAIN repo /\ touched(dest))
                     => lastOp'.asked /\ lastOp'.answer = "Overwrite"
                /\ (lastOp'.asked /\ lastOp'.answer # "Overwrite")
                     => /\ repo' = repo
                        /\ lastOp'.outcome = "failed"
                        /\ lastOp'.message = ImportCancelled
                        /\ ~lastOp'.errorDialog
                        /\ ~lastOp'.info
                /\ (lastOp'.outcome = "failed"
                      /\ lastOp'.message # ImportCancelled)
                     => lastOp'.errorDialog]_vars
  /\ [][(lastOp'.op = "interactiveImport" /\ lastOp'.outcome # "dismissed")
          => /\ \A i \in 1..Len(lastOp'.ids) :
                  LET dest == targetDirOf(lastOp'.format, lastOp'.ids[i])
                  IN (dest \in DOMAIN repo /\ touched(dest))
                       => \E j \in 1..Len(lastOp'.dialogs) :
                            lastOp'.dialogs[j] = <<lastOp'.ids[i], "Overwrite">>
             /\ (lastOp'.dialogs # << >>
                   /\ lastOp'.dialogs[Len(lastOp'.dialogs)][2] # "Overwrite")
                  => /\ lastOp'.outcome = "failed"
                     /\ lastOp'.message = ImportCancelled
                     /\ ~lastOp'.errorDialog
             /\ (lastOp'.outcome = "failed"
                   /\ lastOp'.message # ImportCancelled)
                  => lastOp'.errorDialog]_vars

\* the user has just declined to overwrite a destination that holds another
\* document than the library does
C16_Witness ==
  /\ lastOp.op = "handleImport"
  /\ lastOp.outcome = "failed"
  /\ lastOp.asked
  /\ lastOp.answer = "Cancel"
  /\ lastOp.message = ImportCancelled
  /\ skillFileExists(repo, targetDirOf(lastOp.format, lastOp.id))
  /\ repo[targetDirOf(lastOp.format, lastOp.id)][SkillMd]
       # library[lastOp.id][SkillMd]

\* ------------------------------------------------------------------------
\* Specification of the custom sources
\* ------------------------------------------------------------------------

\* the ids removeCustomSource is called with: those of the custom urls and
\* one of a built-in source
SourceIds ==
  ({idOf(url) : url \in Urls} \ {Undefined})
    \cup {BUILTIN_MARKETPLACE_SOURCES[2].id}

\* the sources fetched here: the second built-in one and the custom ones
FetchedSources ==
  LET all == getSourcesWith(marketplaceSources)
  IN {all[i] : i \in 2..Len(all)} \ {BUILTIN_MARKETPLACE_SOURCES[3]}

NextSources ==
  \/ \E url \in Urls : addCustomSource(url)
  \/ \E sourceId \in SourceIds : removeCustomSource(sourceId)
  \/ \E source \in FetchedSources :
       \E net \in {[fail |-> "tree", ok |-> {}],
                   [fail |-> "none", ok |-> DocPaths(source)]} :
         fetchSource(source, TRUE, net)

SpecSources == Init /\ [][NextSources]_vars

\* C17: addCustomSource(url) fails when the exact url string is already
\* persisted, and the persisted list never holds the same string twice.
C17_NoDuplicateUrls ==
  /\ [](\A i, j \in 1..Len(marketplaceSources) :
          i # j => marketplaceSources[i] # marketplaceSources[j])
  /\ [][(lastOp'.op = "addCustomSource"
           /\ \E i \in 1..Len(marketplaceSources) :
                marketplaceSources[i] = lastOp'.url)
          => /\ lastOp'.outcome = "failed"
             /\ lastOp'.message = "Source already exists"
             /\ marketplaceSources' = marketplaceSources]_vars

\* a url was just refused as already persisted while the list holds two
\* different strings of one source
C17_Witness ==
  /\ lastOp.op = "addCustomSource"
  /\ lastOp.message = "Source already exists"
  /\ \E i, j \in 1..Len(marketplaceSources) :
       /\ i # j
       /\ idOf(marketplaceSources[i]) = idOf(marketplaceSources[j])

\* C18: when removeCustomSource(sourceId) completes, the persisted list is
\* the previous one without the urls whose parsed id is sourceId, in the
\* previous order, and the cache has no entry for sourceId.
C18_RemoveFiltersAndEvicts ==
  [][lastOp'.op = "removeCustomSource"
      => /\ marketplaceSources' =
              SelectSeq(marketplaceSources,
                        LAMBDA url : parseGitHubUrl(url) = Null
                                       \/ parseGitHubUrl(url).id
                                            # lastOp'.sourceId)
         /\ lastOp'.sourceId \notin DOMAIN cache']_vars

\* a removal has just dropped two urls of one source, kept another url and
\* evicted the entry of the source
C18_Witness ==
  /\ lastOp.op = "removeCustomSource"
  /\ lastOp.removed >= 2
  /\ lastOp.evicted
  /\ marketplaceSources # << >>
  /\ cache # << >>

\* ------------------------------------------------------------------------
\* Specification of overlapping createSkill calls
\* ------------------------------------------------------------------------

NextCreates ==
  \/ \E c \in Callers, id \in RemoteIds, i \in SkillInputs :
       beginCreate(c, id, i.metadata, i.body)
  \/ \E c \in Callers : mkdirStep(c)
  \/ \E c \in Callers : openStep(c)
  \/ \E c \in Callers : writeStep(c)
  \/ \E c \in Callers : returnStep(c)

SpecCreates == Init /\ [][NextCreates]_vars

\* C19: two overlapping createSkill calls for the same absent id end with
\* both succeeding or with one failing with AlreadyExists, and in either
\* case the stored document is entirely the one written by a single call.
C19_OverlappingCreatesWhole ==
  \A c1, c2 \in Callers :
    (/\ c1 # c2
     /\ creates[c1].phase = "Done"
     /\ creates[c2].phase \in {"Done", "Failed"}
     /\ creates[c1].id = creates[c2].id)
    => LET stored == library[creates[c1].id][SkillMd]
       IN IF creates[c2].phase = "Failed"
          THEN stored = creates[c1].content
          ELSE stored \in {creates[c1].content, creates[c2].content}

\* C20: two overlapping fetchSource calls for one source with force=true
\* both perform the walk, and each sets the one cache entry of the source
\* to its own result when it settles, so the entry is that of the call
\* that wrote last.
C20_LastWriteWins ==
  /\ [][(lastOp'.op = "beginFetch" /\ lastOp'.force)
          => /\ lastOp'.outcome = "miss"
             /\ fetches'[lastOp'.call].phase = "FetchingTree"]_vars
  /\ [][lastOp'.op = "documentsSettle"
          => /\ DOMAIN cache' = DOMAIN cache \cup {lastOp'.id}
             /\ cache'[lastOp'.id] =
                  [data |-> lastOp'.value, timestamp |-> now]
             /\ \A d \in DOMAIN cache \ {lastOp'.id} : cache'[d] = cache[d]]_vars

\* both callers forced a fetch of one source while an entry was cached, both
\* walked, their results differ, and the entry is the one of the call that
\* settled last
C20_Witness ==
  /\ lastOp.op = "documentsSettle"
  /\ \A c \in Callers : /\ fetches[c].phase = "Cached"
                        /\ fetches[c].force
                        /\ fetches[c].source.id = lastOp.id
  /\ fetches["first"].value # fetches["second"].value
  /\ cache[lastOp.id].data = fetches[lastOp.call].value

\* ------------------------------------------------------------------------
\* Specification of fetchSource with the document requests completing in
\* any order
\* ------------------------------------------------------------------------

\* the sources fetched here
BuiltinSources ==
  {BUILTIN_MARKETPLACE_SOURCES[i] : i \in 1..Len(BUILTIN_MARKETPLACE_SOURCES)}

NextFetchOrder ==
  \/ \E source \in BuiltinSources :
       \E ok \in SUBSET DocPaths(source) :
         \E order \in CompletionOrders(Cardinality(DocPaths(source))) :
           fetchSourceArriving(source, ok, order)
  \/ clearCache
  \/ Tick

SpecFetchOrder == Init /\ [][NextFetchOrder]_vars

\* C21: the list fetchSource returns is ordered like the filtered path list
\* of the tree listing, whatever the order in which the document requests
\* complete: it holds the documents of the fulfilled requests, one each, in
\* the order of their paths in that list.
C21_PathOrder ==
  [][lastOp'.op = "fetchSourceArriving"
      => LET fulfilled == SelectSeq(lastOp'.paths,
                                    LAMBDA p : p \in lastOp'.ok)
         IN /\ Len(lastOp'.value) = Len(fulfilled)
            /\ \A i \in 1..Len(fulfilled) :
                 lastOp'.value[i].repoPath = fulfilled[i]
            /\ cache'[lastOp'.id].data = lastOp'.value]_vars

\* two documents arrived, the second of the path list first
C21_Witness ==
  /\ lastOp.op = "fetchSourceArriving"
  /\ Len(lastOp.value) = 2
  /\ lastOp.order = <<2, 1>>
  /\ lastOp.value[1].repoPath = lastOp.paths[1]

\* ------------------------------------------------------------------------
\* Specification of the frontmatter codec
\* ------------------------------------------------------------------------

NextCodec ==
  \/ \E content \in Contents : parseContent(content)
  \/ \E metadata \in MetadataInputs, body \in BodyInputs :
       roundTrip(metadata, body)

SpecCodec == Init /\ [][NextCodec]_vars

\* the metadata a reader expects back: an empty name is "untitled", an
\* empty optional field or an empty list of tags is an absent one
defaulted(metadata) ==
  [key \in {f \in DOMAIN metadata :
              \/ f \in {"name", "description"}
              \/ (f = "tags" /\ metadata[f] # << >>)
              \/ (f # "tags" /\ metadata[f] # "")} |->
     IF key = "name" /\ metadata[key] = "" THEN "untitled"
     ELSE metadata[key]]

\* C22, as stated: parse(serialize(metadata, body)) returns the metadata
\* field for field (after defaulting) and a body equal to body.trim().
C22_RoundTripExact ==
  [][lastOp'.op = "roundTrip"
      => /\ lastOp'.outcome = "ok"
         /\ lastOp'.parsed = defaulted(lastOp'.metadata)
         /\ lastOp'.parsedBody = trimLines(lastOp'.body)]_vars

\* C22, amended: parse(serialize(metadata, body)) returns the metadata field
\* for field (after defaulting) and a body that is body.trim() followed by
\* one newline, or the empty string when body.trim() is empty; so the two
\* bodies are equal once trimmed.
C22_RoundTrip ==
  [][lastOp'.op = "roundTrip"
      => /\ lastOp'.outcome = "ok"
         /\ lastOp'.parsed = defaulted(lastOp'.metadata)
         /\ lastOp'.parsedBody =
              IF trimLines(lastOp'.body) = <<Blank>> THEN <<Blank>>
              ELSE trimLines(lastOp'.body) \o <<Blank>>
         /\ trimLines(lastOp'.parsedBody) = trimLines(lastOp'.body)]_vars

\* a metadata object with an empty name, a version, an author and tags went
\* through both functions with a body that has empty lines at both ends
C22_Witness ==
  /\ lastOp.op = "roundTrip"
  /\ lastOp.metadata.name = ""
  /\ lastOp.parsed.name = "untitled"
  /\ field(lastOp.metadata, "version") = "1.0"
  /\ field(lastOp.parsed, "author") = "tester"
  /\ "tags" \in DOMAIN lastOp.parsed
  /\ lastOp.body # trimLines(lastOp.body)
  /\ lastOp.parsedBody # trimLines(lastOp.body)

\* the value a content's header gives to a top-level key
headerValue(content, key) ==
  LET hits == {i \in 1..Len(content) :
                 content[i].t = "entry" /\ content[i].key = key}
  IN IF hits = {} THEN YUndefined ELSE content[CHOOSE i \in hits : TRUE].val

\* C23: when a header carries author, version, tags or generatedBy both at
\* top level and inside the nested metadata: block, the parsed metadata
\* takes the nested value of that field.
C23_NestedWins ==
  [][(lastOp'.op = "parseFrontmatter" /\ lastOp'.matched
        /\ lastOp'.outcome = "ok")
      => LET nested == headerValue(lastOp'.content, "metadata")
         IN /\ \A key \in {"author", "version", "generatedBy"} :
                 (/\ headerValue(lastOp'.content, key).k = "str"
                  /\ get(nested, key).k = "str")
                 => field(lastOp'.metadata, key) = get(nested, key).s
            /\ (/\ headerValue(lastOp'.content, "tags").k = "seq"
                /\ get(nested, "tags").k = "seq")
               => /\ "tags" \in DOMAIN lastOp'.metadata
                  /\ lastOp'.metadata.tags =
                       [i \in 1..Len(get(nested, "tags").items) |->
                          get(nested, "tags").items[i].s]]_vars

\* the fields of SkillMetadata, and the key of the nested block
KnownKeys ==
  {"name", "description", "license", "compatibility", "author", "version",
   "tags", "generatedBy", "metadata"}

\* C24: every top-level header key that is not a known metadata field is
\* kept, with its value, in the parsed metadata.
C24_UnknownKeysKept ==
  [][(lastOp'.op = "parseFrontmatter" /\ lastOp'.matched
        /\ lastOp'.outcome = "ok")
      => \A i \in 1..Len(lastOp'.content) :
           (/\ lastOp'.content[i].t = "entry"
            /\ lastOp'.content[i].key \notin KnownKeys
            /\ lastOp'.content[i].val.k = "str")
           => /\ lastOp'.content[i].key \in DOMAIN lastOp'.metadata
              /\ lastOp'.metadata[lastOp'.content[i].key]
                   = lastOp'.content[i].val.s]_vars

\* C25: parse never throws; without a well-formed header, or with a header
\* that cannot be parsed, it returns {name: "untitled", description: ""}
\* and the entire input as body; name and description are always defined
\* strings.
C25_ParseTotal ==
  [][lastOp'.op = "parseFrontmatter"
      => /\ lastOp'.outcome = "ok"
         /\ ~lastOp'.matched
              => /\ lastOp'.metadata = Fallback
                 /\ lastOp'.body = lastOp'.content
         /\ {"name", "description"} \subseteq DOMAIN lastOp'.metadata
         /\ lastOp'.metadata.name \in STRING
         /\ lastOp'.metadata.description \in STRING]_vars


\* ------------------------------------------------------------------------
\* Specification of the validated entry points: the editor saves new skills
\* and the duplicate command copies skills of the library

NextEntry ==
  \/ \E idField \in IdFields, nameField \in NameFields, i \in SkillInputs :
       editorSave(idField, nameField, i.body)
  \/ \E sourceId \in DOMAIN library, value \in IdFields :
       duplicateCommand(sourceId, value)

SpecEntry == Init /\ [][NextEntry]_vars

\* ^[a-z0-9]([a-z0-9-]*[a-z0-9])?$
idPattern(id) ==
  /\ Len(id) >= 1
  /\ id[1] \in AlNum
  /\ id[Len(id)] \in AlNum
  /\ \A k \in 1..Len(id) : id[k] \in AlNum \cup {"-"}

\* C26: the editor's save validation (given a name) and the duplicate
\* command's id prompt accept an id if and only if it matches
\* ^[a-z0-9]([a-z0-9-]*[a-z0-9])?$, so that no skill whose id fails the
\* pattern is created through them.
C26_AcceptsExactlyThePattern ==
  [][ /\ lastOp'.op \in {"editorSave", "duplicateCommand"}
      /\ (lastOp'.op = "editorSave" => lastOp'.named)
      => /\ lastOp'.accepted <=> idPattern(lastOp'.chars)
         /\ lastOp'.fired => idPattern(lastOp'.chars) ]_vars


\* ------------------------------------------------------------------------
\* Specification of the HTTP helpers of the Marketplace Client

RequestUrls == {"api", "raw"}

NextHttp ==
  \/ \E url \in RequestUrls, chain \in Chains : httpGetJson(url, chain)
  \/ \E url \in RequestUrls, chain \in Chains : httpGetText(url, chain)

SpecHttp == Init /\ [][NextHttp]_vars

\* C27: a 403 response whose rate-limit-remaining header reads "0" is
\* rejected with the rate-limit-exceeded error that tells to set a token,
\* never with the generic HTTP error; every other response of status 400 or
\* more is rejected with the generic HTTP error carrying the status and the
\* requested URL.
C27_RateLimitTranslation ==
  [][ /\ lastOp'.op \in {"httpGetJson", "httpGetText"}
      /\ lastOp'.arrived
      /\ lastOp'.statusCode >= 400
      => /\ lastOp'.outcome = "rejected"
         /\ IF lastOp'.statusCode = 403 /\ lastOp'.remaining = <<"0">>
            THEN lastOp'.error.template = RateLimitMessage
            ELSE /\ lastOp'.error.template = "HTTP {statusCode} for {url}"
                 /\ lastOp'.error.statusCode = lastOp'.statusCode
                 /\ lastOp'.error.url = lastOp'.url ]_vars

\* a redirected request met a 403 response with no allowance left and was
\* rejected with the rate-limit error
C27_Witness ==
  /\ lastOp.op = "httpGetJson"
  /\ lastOp.hops = 1
  /\ lastOp.statusCode = 403
  /\ lastOp.remaining = <<"0">>
  /\ lastOp.outcome = "rejected"
  /\ lastOp.error.template = RateLimitMessage


\* ------------------------------------------------------------------------
\* Specification of the library as listSkills lists it: skills are created,
\* updated, deleted, duplicated and imported, a create can fail at its
\* write, and imports bring a hidden directory and a document that is not
\* parsed

ListedPaths == {<<"tmp", "a", BaseName>>, HiddenPath, OddPath}

NextListing ==
  \/ \E id \in RemoteIds, i \in SkillInputs : createSkill(id, i.metadata, i.body)
  \/ \E id \in RemoteIds : createSkillWriteFails(id)
  \/ \E id \in RemoteIds, i \in SkillInputs : updateSkill(id, i.metadata, i.body)
  \/ \E id \in RemoteIds \cup {OddName} : deleteSkill(id)
  \/ \E sourceId \in RemoteIds \cup {HiddenName, OddName}, newId \in RemoteIds :
       duplicateSkill(sourceId, newId)
  \/ \E skillDir \in ListedPaths : importFromPath(skillDir)
  \/ listSkills

SpecListing == Init /\ [][NextListing]_vars

\* the non-hidden directories of a library that hold a SKILL.md
documented(lib) ==
  {d \in DOMAIN lib : ~ isHidden(d) /\ skillFileExists(lib, d)}

\* C28: after any sequence of create, update, delete, duplicate and import
\* operations, listSkills returns exactly one skill for each non-hidden
\* directory of the library that holds a SKILL.md, and returns them sorted
\* by name.
C28_ListsEveryDocument ==
  [][ lastOp'.op = "listSkills"
      => LET v == lastOp'.value
         IN /\ {v[k].id : k \in 1..Len(v)} = documented(library')
            /\ Len(v) = Cardinality(documented(library'))
            /\ \A k \in 1..(Len(v) - 1) :
                 localeCompare(v[k].name, v[k + 1].name) <= 0 ]_vars


\* ------------------------------------------------------------------------
\* Specification of overlapping recordInstall calls: each caller makes one
\* call

NextInstalls ==
  \/ \E c \in Callers, id \in RemoteIds, version \in Versions \cup {Undefined} :
       beginRecordInstall(c, id, version)
  \/ \E c \in Callers : readStatsStep(c)
  \/ \E c \in Callers : writeStatsStep(c)

SpecInstalls == Init /\ [][NextInstalls]_vars

\* C29: when recordInstall calls overlap, for one id or for different ids,
\* no install is lost: once all of them have completed, the installCount of
\* every id is the number of recordInstall calls made for it, so that no
\* entry has disappeared.
C29_NoInstallLost ==
  (\A c \in Callers : installs[c].phase = "Done")
    => \A id \in RemoteIds : countOf(stats, id) = recorded[id]


\* ------------------------------------------------------------------------
\* Specification of overlapping importFromPath calls: each caller makes one
\* call

NextImports ==
  \/ \E c \in Callers, skillDir \in ExternalPaths : beginImport(c, skillDir)
  \/ \E c \in Callers : probeStep(c)
  \/ \E c \in Callers : importMkdirStep(c)
  \/ \E c \in Callers : importCopyStep(c)
  \/ \E c \in Callers : importReturnStep(c)

SpecImports == Init /\ [][NextImports]_vars

\* C30: two overlapping importFromPath calls for two external directories
\* of the same base name end with two distinct library ids, and the
\* library directory of each call holds the files of its own source only.
C30_OverlappingImportsApart ==
  \A c1, c2 \in Callers :
    (/\ c1 # c2
     /\ importing[c1].phase = "Done"
     /\ importing[c2].phase = "Done"
     /\ importing[c1].from # importing[c2].from
     /\ basename(importing[c1].from) = basename(importing[c2].from))
    => /\ importing[c1].targetId # importing[c2].targetId
       /\ library[importing[c1].targetId] = ExternalFiles(importing[c1].from)

\* ------------------------------------------------------------------------
\* Specification of evictions while fetchSource calls are in progress: a
\* custom source is added and removed, the cache is cleared, and each caller
\* makes one fetchSource call, await by await

EvictUrl == <<"https:", "/", "/", "github.com", "/", "org", "/", "repo">>

NextEvict ==
  \/ addCustomSource(EvictUrl)
  \/ \E c \in Callers, source \in FetchedSources, force \in BOOLEAN :
       beginFetch(c, source, force)
  \/ \E c \in Callers, fail \in TreeOutcomes : treeArrives(c, fail)
  \/ \E c \in Callers :
       \E ok \in SUBSET {fetches[c].paths[i] : i \in 1..Len(fetches[c].paths)} :
         documentsSettle(c, ok)
  \/ clearCache
  \/ removeCustomSource(idOf(EvictUrl))

SpecEvict == Init /\ [][NextEvict]_vars

\* C31: an eviction is not undone by a fetch in flight: a fetchSource call
\* that was walking when clearCache or removeCustomSource of its source
\* completed never sets the cache entry.
C31_EvictionHolds ==
  [][lastOp'.op = "documentsSettle" => lastOp'.call \notin overtaken]_vars

\* the source fetched here that has the id
sourceOf(id) == CHOOSE source \in Sources : source.id = id

\* C32 as stated: a cache entry is written only from a complete walk, so
\* the cached list of a source has one skill for every SKILL.md path of the
\* tree listing under the source's path.
C32_CacheComplete ==
  \A id \in DOMAIN cache :
    Len(cache[id].data) = Cardinality(DocPaths(sourceOf(id)))

\* C32: every walk whose tree request succeeded sets the cache entry of its
\* source to the list it returns, which has one skill for each SKILL.md
\* path whose document request was fulfilled; a later hit returns that
\* list as it is.
C32_CacheHoldsFulfilled ==
  [][ lastOp'.op = "fetchSource" /\ lastOp'.outcome = "ok"
      => IF lastOp'.requests = 0
         THEN lastOp'.value = cache[lastOp'.id].data
         ELSE /\ lastOp'.id \in DOMAIN cache'
              /\ cache'[lastOp'.id].data = lastOp'.value
              /\ Len(lastOp'.value) = Cardinality(lastOp'.net.ok) ]_vars

\* a hit has served the list of a walk in which a document request failed
C32_Witness ==
  /\ lastOp.op = "fetchSource"
  /\ lastOp.outcome = "ok"
  /\ lastOp.requests = 0
  /\ lastOp.value # << >>
  /\ Len(lastOp.value) < Cardinality(DocPaths(sourceOf(lastOp.id)))

\* ------------------------------------------------------------------------
\* Specification of custom sources on two branches of one repository: the
\* sources are added, fetched and removed

BranchUrls ==
  { <<"https:", "/", "/", "github.com", "/", "org", "/", "repo">>,
    <<"https:", "/", "/", "github.com", "/", "org", "/", "repo", "/",
      "tree", "/", "dev">> }

CustomSources ==
  LET custom == parsedOf(marketplaceSources)
  IN {custom[k] : k \in 1..Len(custom)}

NextBranches ==
  \/ \E url \in BranchUrls : addCustomSource(url)
  \/ \E source \in CustomSources, force \in BOOLEAN :
       \E net \in NetsOfAll(source) : fetchSource(source, force, net)
  \/ \E sourceId \in {source.id : source \in CustomSources} :
       removeCustomSource(sourceId)

SpecBranches == Init /\ [][NextBranches]_vars

\* C33: what fetchSource returns for a source, from the cache or not, was
\* fetched from the owner, repository and branch of that source, so that
\* two custom sources that differ in branch never share a cache entry.
C33_OwnBranchOnly ==
  [][ lastOp'.op = "fetchSource" /\ lastOp'.outcome = "ok"
      => \A k \in 1..Len(lastOp'.value) :
           lastOp'.value[k].downloadUrl[6] = lastOp'.branch ]_vars

\* ------------------------------------------------------------------------
\* Specification of installs into a library where a create can fail at its
\* write

NextAgree ==
  \/ \E remote \in RemoteSkills, ans \in Answers : installSkill(remote, ans)
  \/ \E id \in RemoteIds, i \in SkillInputs : createSkill(id, i.metadata, i.body)
  \/ \E id \in RemoteIds : createSkillWriteFails(id)
  \/ \E id \in RemoteIds : deleteSkill(id)

SpecAgree == Init /\ [][NextAgree]_vars

\* C34: the operations agree on whether an id exists: createSkill fails
\* with AlreadyExists exactly when readSkill returns a skill, so installSkill
\* for an id that readSkill reports as absent creates the skill and records
\* the install.
C34_ExistenceAgrees ==
  [][ /\ lastOp'.op = "createSkill"
         => (lastOp'.outcome = "AlreadyExists"
               <=> readSkill(library, lastOp'.id) # Null)
      /\ lastOp'.op = "installSkill" /\ readSkill(library, lastOp'.id) = Null
         => /\ lastOp'.outcome = "ok"
            /\ readSkill(library', lastOp'.id) # Null
            /\ recorded'[lastOp'.id] = recorded[lastOp'.id] + 1 ]_vars

\* C35: a fetchSource call that fails, because resolving the token or the
\* tree request is rejected, leaves the cache as it was: no entry is
\* created, removed or refreshed.
C35_FailureKeepsCache ==
  [][ lastOp'.op = "fetchSource" /\ lastOp'.outcome = "failed"
      => cache' = cache ]_vars

\* a forced fetch of a source that has a cache entry has failed, and the
\* entry is still there
C35_Witness ==
  /\ lastOp.op = "fetchSource"
  /\ lastOp.outcome = "failed"
  /\ lastOp.force
  /\ lastOp.id \in DOMAIN cache
  /\ cache[lastOp.id].data # << >>

\* ------------------------------------------------------------------------
\* Specification of one HTTPS GET of fetchSource, response by response: the
\* tree request or a document request, with or without a token; under
\* SpecHttpStepsFair every pending request gets a response or an error

NextHttpSteps ==
  \/ \E token \in Tokens : beginGet(TRUE, ApiUrl, token)
  \/ \E token \in Tokens : beginGet(FALSE, RawUrl, token)
  \/ \E res \in StepResponses : respond(res)
  \/ requestError

SpecHttpSteps == Init /\ [][NextHttpSteps]_vars

answered == (\E res \in StepResponses : respond(res)) \/ requestError

SpecHttpStepsFair == SpecHttpSteps /\ WF_vars(answered)

\* C36: every request of a fetchSource call settles, and with it the call,
\* provided every HTTP request gets a response, whatever chain of redirects
\* the responses make.
C36_EveryGetSettles ==
  (http.phase = "Pending") ~> (http.phase \in {"Resolved", "Rejected"})

\* C37: the configured token is attached only to requests to the GitHub API
\* and raw-content hosts, never to a request to another host that a
\* redirect leads to.
C37_TokenStaysHome ==
  http.phase # "Idle"
    => \A request \in http.sent :
         request.headers.authorization # Undefined
           => request.host \in {"api.github.com", "raw.githubusercontent.com"}

\* ------------------------------------------------------------------------
\* Specification of the webview panels: editor and manager panels are
\* opened, closed by the user, cancelled, and disposed

NextPanels ==
  \/ \E key \in EditorKeys : createOrShowEditor(key)
  \/ createOrShowManager
  \/ \E p \in PanelIds : dispose(p)
  \/ \E p \in PanelIds : cancelMessage(p)
  \/ \E p \in PanelIds : closePanel(p)

SpecPanels == Init /\ [][NextPanels]_vars

\* C38: dispose() of an editor or manager panel is idempotent: whatever
\* calls it makes on itself through the panel's dispose event, it disposes
\* the underlying panel once, and a call on a panel that was disposed
\* before leaves the underlying panel and the panel registries as they are.
C38_DisposeOnce ==
  [][lastOp'.op = "dispose"
       => LET p == lastOp'.panel IN
          /\ panels'.wrappers[p].panelDisposals <= 1
          /\ panels.wrappers[p].panelDisposals > 0
               => /\ panels'.currentPanels = panels.currentPanels
                  /\ panels'.currentPanel = panels.currentPanel]_vars

====
